---- MODULE Spec2Model ----
(***************************************************************************)
(* Model of the EVE library's command-FIFO engine (src/eve.c): the host    *)
(* write cursor FifoWriteLocation, the device registers the host reads and *)
(* writes over SPI, the blocking waits, the fault recovery and the bulk    *)
(* uploader.  The host is one sequential program; every register access    *)
(* is one step, and the coprocessor runs between the host's steps.         *)
(***************************************************************************)
EXTENDS Integers, Sequences, FiniteSets, TLC

(***************************************************************************)
(* Program constants.                                                      *)
(***************************************************************************)
\* eve.h: size of the circular command buffer RAM_CMD, in bytes.
FT_CMD_FIFO_SIZE == 4096
\* eve.h: size of one command word, in bytes.
FT_CMD_SIZE == 4
\* eve.c: #define WorkBuffSz 512
WorkBuffSz == 512
\* eve.c: REG_CMD_READ value that reports a coprocessor fault (0xFFF).
FAULT_SENTINEL == 4095
\* eve.c: mask of the "4 byte alignment" step of CoProWrCmdBuf (0xFFC).
ALIGN_MASK == 4092
\* eve.c: bound of the error-report read loop of Wait4CoProFIFOEmpty.
ERR_REPORT_MAX == 128
\* eve.c:46: base address of the command FIFO, RAM_CMD (0x308000).
RAM_CMD == 3178496
\* eve.c:1026: base address of the register window, RAM_REG (0x302000).
RAM_REG == 3153920

(***************************************************************************)
(* Bounds of the model.                                                    *)
(***************************************************************************)
\* API calls the application makes in one run.
MaxCalls == 3
\* Coprocessor faults in one run.
MaxFaults == 1
\* The poll counter of a wait saturates here.
PollCap == 2
\* Words the coprocessor consumes in one long step.
DevBurstWords == 128
\* Single-word steps of the coprocessor in one run.
MaxWordSteps == 1
\* Full chunks of the longest upload whose chunking is enumerated.
MaxFullChunks == 3
\* Operations run on the transport in one behaviour.
MaxBusOps == 2

(***************************************************************************)
(* C arithmetic.                                                           *)
(***************************************************************************)
\* Conversion to uint16_t: reduction modulo 2^16.
U16(x) == x % 65536

\* The range of int32_t.
MaxInt32 == 2147483647

MinInt32 == (0 - MaxInt32) - 1

\* A uint32_t value is written <<hi, lo>>, standing for hi * 2^31 + lo with
\* hi in {0, 1} and lo in 0 .. 2^31 - 1.  Its conversion to int32_t (two's
\* complement): values from 2^31 on become negative.
ToInt32(u) == IF u[1] = 1 THEN (u[2] - MaxInt32) - 1 ELSE u[2]

\* a - b computed in uint32_t and converted to int32_t, for an int32_t a and
\* 0 <= b < 2^31: the difference wraps below the least int32_t.
Sub32(a, b) ==
    IF a < MinInt32 + b
    THEN (((a - MinInt32) - b) + MaxInt32) + 1
    ELSE a - b

\* The C operator %: the remainder has the sign of the dividend.
CRem(a, b) == IF a >= 0 THEN a % b ELSE 0 - ((0 - a) % b)

\* x & 0xFFC for the uint32_t conversion of an int32_t x: bits 2..11, which
\* two's complement gives as the residues of x modulo 4096 and modulo 4.
AndAlignMask(x) == (x % (ALIGN_MASK + 4)) - (x % 4)

Min(a, b) == IF a < b THEN a ELSE b

(***************************************************************************)
(* CoProFIFO_FreeSpace: the arithmetic on the two values read.  The        *)
(* uint16_t operands are promoted to int, so the difference may be         *)
(* negative and % truncates; the result is narrowed to uint16_t twice.     *)
(***************************************************************************)
FreeSpaceDiff(cmdBufferRd, cmdBufferWr) ==
    U16(CRem(cmdBufferWr - cmdBufferRd, FT_CMD_FIFO_SIZE))

FreeSpaceValue(cmdBufferRd, cmdBufferWr) ==
    U16((FT_CMD_FIFO_SIZE - 4) - FreeSpaceDiff(cmdBufferRd, cmdBufferWr))

(***************************************************************************)
(* CoProWrCmdBuf: the size of the next chunk and the count that remains.   *)
(***************************************************************************)
\* ChunkSize with the "4 byte alignment" step forgotten.
ChunkSize_NoRound(rem) == IF rem > WorkBuffSz THEN WorkBuffSz ELSE rem

\* TransferSize: WorkBuffSz, or (Remaining + 3) & 0xFFC computed in uint32_t.
ChunkSize(Remaining) ==
    IF Remaining > WorkBuffSz
    THEN WorkBuffSz
    ELSE AndAlignMask(Remaining + 3)

\* Remaining -= TransferSize (int32_t -= uint32_t).
RemainingAfter(Remaining, TransferSize) == Sub32(Remaining, TransferSize)

\* CursorAfterChunk with the wrap to the window forgotten.
CursorAfterChunk_NoWrap(cursor, TransferSize) == U16(cursor + TransferSize)

\* FifoWriteLocation after a chunk: (uint16_t + uint32_t) % FT_CMD_FIFO_SIZE.
CursorAfterChunk(cursor, TransferSize) ==
    U16((cursor + TransferSize) % FT_CMD_FIFO_SIZE)

\* CursorAfterCmd with the wrap to the window forgotten.
CursorAfterCmd_NoWrap(cursor) == U16(cursor + FT_CMD_SIZE)

\* FifoWriteLocation after Send_CMD: += FT_CMD_SIZE, then %= FT_CMD_FIFO_SIZE.
CursorAfterCmd(cursor) == U16(U16(cursor + FT_CMD_SIZE) % FT_CMD_FIFO_SIZE)

(***************************************************************************)
(* State.                                                                  *)
(***************************************************************************)
VARIABLES
    FifoWriteLocation,  \* eve.c:58, the host's write cursor
    regCmdRead,         \* device register REG_CMD_READ
    regCmdWrite,        \* device register REG_CMD_WRITE
    regCmdDl,           \* device register REG_CMD_DL
    regPatchPtr,        \* device register REG_COPRO_PATCH_PTR
    regCpuReset,        \* device register REG_CPU_RESET
    pc,                 \* where the host program is
    fsMode,             \* "call": CoProFIFO_FreeSpace alone; "wait": in Wait4CoProFIFO
    inUpload,           \* Wait4CoProFIFO was called by CoProWrCmdBuf
    room,               \* argument of Wait4CoProFIFO
    cmdBufferRd,        \* locals of CoProFIFO_FreeSpace
    cmdBufferWr,
    getfreespace,       \* local of Wait4CoProFIFO / result of CoProFIFO_FreeSpace
    ReadReg,            \* local of Wait4CoProFIFOEmpty
    errLen,             \* length of the string in RAM_ERR_REPORT
    errRead,            \* bytes the error-report loop has read
    Patch_Add,          \* local of the recovery sequence
    rcIdx,              \* next step of the recovery sequence
    rcRet,              \* who runs the recovery: "we" or "init"
    Remaining,          \* locals of CoProWrCmdBuf
    TransferSize,
    done,               \* the operation that returned last
    calls,              \* API calls made so far
    faults,             \* faults the coprocessor has raised so far
    wordSteps,          \* single-word steps the coprocessor has made so far
    polls,              \* REG_CMD_READ polls of the current wait (saturating)
    wroteReg,           \* the current wait has written a register
    recCount,           \* recoveries completed since the last poll
    pendingFault,       \* a wait read the sentinel and no reset followed yet
    rcLog,              \* register accesses of the current recovery
    cBefore,            \* FifoWriteLocation when the recovery began
    patchBefore,        \* REG_COPRO_PATCH_PTR when the recovery began
    weDrainedAtCall,    \* Wait4CoProFIFOEmpty was called published and drained
    enq,                \* bytes enqueued by Send_CMD since the last publish
    upClean,            \* the upload began with cursor = REG_CMD_WRITE, no fault
    unconsumed,         \* bytes published and not yet consumed by the device
    overwrote,          \* a chunk was written over unconsumed bytes
    xferAddr,           \* address of the last write transaction into RAM_CMD
    xferLen,            \* payload bytes of that transaction
    xferCount,          \* write transactions into RAM_CMD of the current call
    buffOff,            \* CoProWrCmdBuf: offset of buff from its value at entry
    chunks,             \* CoProWrCmdBuf: iterations of the chunk loop completed
    count,              \* CoProWrCmdBuf: the argument count, as <<hi, lo>>
    cursorAtEntry,      \* CoProWrCmdBuf: FifoWriteLocation at entry
    spiOpen,            \* transport transactions open (HAL_SPI_Enable not yet closed)
    spiNested,          \* HAL_SPI_Enable was called with a transaction open
    wire,               \* bytes the host has sent in the current transaction
    mem,                \* the device's memory, byte by byte
    rdBuf,              \* buf of rd32 / rd16 / rd8 / rdN
    busRet,             \* what the last register read returned
    busProg,            \* transport calls the running operation has still to make
    busCur,             \* the running (or last) operation: name, address, value
    busPrev,            \* the operation before it
    busLog,             \* transport calls of the running operation, in order
    busOps,             \* operations started so far
    busFailed,          \* a transport call of the running operation has failed
    accessesAfterFail,  \* register accesses the operation began after the failure
    displayX,           \* the calibration points: display coordinates
    displayY,
    touchX,             \* the calibration points: raw touch coordinates
    touchY,
    detK,               \* calculate_touch_matrix: k
    TransMatrix,        \* the six coefficients
    divByZero,          \* calculate_touch_matrix has divided by k = 0
    calOp,              \* the calibration running (or run last)
    calArgs,            \* its arguments
    calCount,           \* count of the loop that writes the coefficients
    calWrites,          \* its wr32 calls: <<offset in the transform block, value>>
    calCursor,          \* FifoWriteLocation when the calibration was called
    calRuns,            \* the calibrations completed: arguments, cursors, writes
    pressed,            \* Calibrate_Manual: pressed
    pointCount,         \* Calibrate_Manual: count of the loop over the points
    calLog,             \* Calibrate_Manual: its steps, in order
    calRet,             \* Calibrate_Manual: where a call it made returns to
    length              \* Cmd_Text: length

devVars == <<regCmdRead, regCmdWrite, regCmdDl, regPatchPtr, regCpuReset>>

fsVars == <<fsMode, inUpload, room, cmdBufferRd, cmdBufferWr, getfreespace>>

weVars == <<ReadReg, errLen, errRead, Patch_Add, rcIdx, rcRet>>

upVars == <<Remaining, TransferSize>>

xferVars == <<xferAddr, xferLen, xferCount, buffOff, chunks, count,
              cursorAtEntry>>

ghostVars == <<done, calls, faults, wordSteps, polls, wroteReg, recCount, pendingFault,
               rcLog, cBefore, patchBefore, weDrainedAtCall, enq, upClean,
               unconsumed, overwrote>>

busVars == <<spiOpen, spiNested, wire, mem, rdBuf, busRet, busProg, busCur,
             busPrev, busLog, busOps, busFailed, accessesAfterFail>>

calVars == <<displayX, displayY, touchX, touchY, detK, TransMatrix, divByZero,
             calOp, calArgs, calCount, calWrites, calCursor, calRuns, pressed,
             pointCount, calLog, calRet>>

textVars == <<length>>

extVars == <<busVars, calVars, textVars>>

\* Everything but the transport.
fifoVars == <<FifoWriteLocation, pc, devVars, fsVars, weVars, upVars, ghostVars,
              xferVars, calVars, textVars>>

vars == <<FifoWriteLocation, pc, devVars, fsVars, weVars, upVars, ghostVars,
          xferVars, extVars>>

(***************************************************************************)
(* Input sets.                                                             *)
(***************************************************************************)
\* Every offset the cursors can hold: the 4-aligned offsets of the window.
AlignedOffsets == {FT_CMD_SIZE * k : k \in 0 .. (FT_CMD_FIFO_SIZE \div FT_CMD_SIZE) - 1}

\* Drained states the program is started in: cursor = REG_CMD_WRITE =
\* REG_CMD_READ = s, reached by s/4 Send_CMD calls, UpdateFIFO and a drain.
StartCursors == {0, FT_CMD_FIFO_SIZE - WorkBuffSz, FT_CMD_FIFO_SIZE - FT_CMD_SIZE}

\* Values of the patch pointer a loaded firmware patch leaves.
PatchValues == {32764}

\* Byte counts handed to CoProWrCmdBuf (uint32_t, as <<hi, lo>>); the last
\* one is 2^32 - 100.
UploadCounts == {<<0, 0>>, <<0, 1>>, <<0, WorkBuffSz + 1>>,
                 <<1, MaxInt32 - 99>>}

\* Byte counts of the uploads that go round the whole window.
LongUploadCounts == {<<0, 7 * WorkBuffSz + 1>>, <<0, 8 * WorkBuffSz + 1>>,
                     <<0, 9 * WorkBuffSz>>}

\* Byte counts whose chunking is enumerated: every count up to MaxFullChunks
\* full chunks and a word, and 2^32 - 100 and 2^32 - 99.
ChunkCounts ==
    {<<0, n>> : n \in 0 .. MaxFullChunks * WorkBuffSz + FT_CMD_SIZE}
    \cup {<<1, MaxInt32 - 99>>, <<1, MaxInt32 - 98>>}

\* Values of REG_CMD_READ: the aligned offsets and the fault sentinel.
ReadValues == AlignedOffsets \cup {FAULT_SENTINEL}

\* Published cursors a non-responding device is left with.
StuckWrites == {0, FT_CMD_SIZE, FT_CMD_FIFO_SIZE - WorkBuffSz,
                FT_CMD_FIFO_SIZE - 2 * FT_CMD_SIZE, FT_CMD_FIFO_SIZE - FT_CMD_SIZE}

\* Arguments of Wait4CoProFIFO.
Rooms == {FT_CMD_SIZE, WorkBuffSz}

\* Lengths of the error string the device leaves in RAM_ERR_REPORT.
ErrLengths == {0, 3, ERR_REPORT_MAX}

(***************************************************************************)
(* The transport.  A transaction is HAL_SPI_Enable, bytes written and      *)
(* read, HAL_SPI_Disable.  An operation is the sequence of transport calls *)
(* its code makes; 32-bit values are pairs <<high half, low half>>.        *)
(***************************************************************************)
\* One transport call: "en" HAL_SPI_Enable, "dis" HAL_SPI_Disable, "w" one
\* byte written, "r" a HAL_SPI_ReadBuffer of b bytes into an uninitialised
\* buf, "r0" the same into a zeroed buf, "ret" the return of a b-bit value.
Prim(o, v) == [op |-> o, b |-> v]

HAL_SPI_Enable == <<Prim("en", 0)>>

HAL_SPI_Disable == <<Prim("dis", 0)>>

\* The parameter is a uint8_t: a wider argument is truncated.
HAL_SPI_Write(data) == <<Prim("w", data % 256)>>

HAL_SPI_WriteBuffer(buffer) == [i \in 1 .. Len(buffer) |-> Prim("w", buffer[i] % 256)]

HAL_SPI_ReadBuffer(kind, size) == <<Prim(kind, size)>>

\* n | 0x80
Or80(n) == IF (n \div 128) % 2 = 1 THEN n ELSE n + 128

\* (address >> 16) | 0x80
WriteIntent(address) == Or80(address \div 65536)

\* (address >> 16) & 0x3F
ReadIntent(address) == (address \div 65536) % 64

\* parameter & 0xff, (parameter >> 8) & 0xff, (parameter >> 16) & 0xff,
\* (parameter >> 24) & 0xff
Payload32(parameter) ==
    <<parameter[2] % 256, (parameter[2] \div 256) % 256,
      parameter[1] % 256, (parameter[1] \div 256) % 256>>

wr32(address, parameter) ==
    HAL_SPI_Enable
    \o HAL_SPI_WriteBuffer(<<WriteIntent(address), address \div 256, address>>
                           \o Payload32(parameter))
    \o HAL_SPI_Disable

wr16(address, parameter) ==
    HAL_SPI_Enable
    \o HAL_SPI_Write(WriteIntent(address))
    \o HAL_SPI_Write(address \div 256)
    \o HAL_SPI_Write(address)
    \o HAL_SPI_Write(parameter % 256)
    \o HAL_SPI_Write(parameter \div 256)
    \o HAL_SPI_Disable

wr8(address, parameter) ==
    HAL_SPI_Enable
    \o HAL_SPI_Write(WriteIntent(address))
    \o HAL_SPI_Write(address \div 256)
    \o HAL_SPI_Write(address)
    \o HAL_SPI_Write(parameter)
    \o HAL_SPI_Disable

rd32(address) ==
    HAL_SPI_Enable
    \o HAL_SPI_WriteBuffer(<<ReadIntent(address), (address \div 256) % 256,
                             address % 256>>)
    \o HAL_SPI_ReadBuffer("r", 4)
    \o HAL_SPI_Disable
    \o <<Prim("ret", 32)>>

rd16(address) ==
    HAL_SPI_Enable
    \o HAL_SPI_Write(ReadIntent(address))
    \o HAL_SPI_Write((address \div 256) % 256)
    \o HAL_SPI_Write(address % 256)
    \o HAL_SPI_ReadBuffer("r0", 2)
    \o HAL_SPI_Disable
    \o <<Prim("ret", 16)>>

rd8(address) ==
    HAL_SPI_Enable
    \o HAL_SPI_Write(ReadIntent(address))
    \o HAL_SPI_Write((address \div 256) % 256)
    \o HAL_SPI_Write(address % 256)
    \o HAL_SPI_ReadBuffer("r", 1)
    \o HAL_SPI_Disable
    \o <<Prim("ret", 8)>>

rdN(address, size) ==
    HAL_SPI_Enable
    \o HAL_SPI_Write(ReadIntent(address))
    \o HAL_SPI_Write((address \div 256) % 256)
    \o HAL_SPI_Write(address % 256)
    \o HAL_SPI_ReadBuffer("r", size)
    \o HAL_SPI_Disable

\* Data32 assembled most significant byte first.
Data32_BigEndian(buf) == <<buf[2] + 256 * buf[1], buf[4] + 256 * buf[3]>>

\* buf[0] + (buf[1] << 8) + (buf[2] << 16) + (buf[3] << 24)
Data32(buf) == <<buf[3] + 256 * buf[4], buf[1] + 256 * buf[2]>>

\* buf[0] + ((uint16_t)buf[1] << 8), as uint16_t
Data16(buf) == <<0, (buf[1] + 256 * buf[2]) % 65536>>

Data8(buf) == <<0, buf[1]>>

\* StartCoProTransfer(address, false): the transaction is left open.
StartCoProTransfer(address) ==
    HAL_SPI_Enable
    \o HAL_SPI_Write(WriteIntent(address))
    \o HAL_SPI_Write(address \div 256)
    \o HAL_SPI_Write(address)

\* The i-th 32-bit register of the register window.
BusReg(i) == RAM_REG + FT_CMD_SIZE * i

\* Addresses whose bytes the memory model keeps.
BusAddresses == {BusReg(1), RAM_CMD}

BusCells == {a + i : a \in BusAddresses, i \in 0 .. FT_CMD_SIZE - 1}

\* 32-bit, 16-bit and 8-bit values written.
BusWords == {<<4660, 22136>>, <<32768, 65535>>}

BusHalves == {33023}

BusBytes == {254}

\* Contents an uninitialised buf can have.
StaleBytes == {0, 255}

\* One chunk of CoProWrCmdBuf without the HAL_SPI_Disable of line 1813.
CoProWrCmdBuf_Chunk_NoClose(cursor, buff) ==
    rd16(BusReg(0)) \o rd16(BusReg(1))
    \o StartCoProTransfer(cursor + RAM_CMD)
    \o HAL_SPI_WriteBuffer(buff)
    \o wr16(BusReg(1), CursorAfterChunk(cursor, Len(buff)))

\* One chunk of CoProWrCmdBuf: the two reads of CoProFIFO_FreeSpace, the
\* streaming transaction, its close, the publishing wr16.
CoProWrCmdBuf_Chunk(cursor, buff) ==
    rd16(BusReg(0)) \o rd16(BusReg(1))
    \o StartCoProTransfer(cursor + RAM_CMD)
    \o HAL_SPI_WriteBuffer(buff)
    \o HAL_SPI_Disable
    \o wr16(BusReg(1), CursorAfterChunk(cursor, Len(buff)))

\* The poll of Wait4CoProFIFOEmpty that reads the sentinel, one byte of the
\* error report, the recovery sequence.
RecoveryAccesses ==
    rd16(BusReg(0)) \o rd8(BusReg(5))
    \o rd32(BusReg(4)) \o wr8(BusReg(3), 1) \o wr16(BusReg(0), 0)
    \o wr16(BusReg(1), 0) \o wr16(BusReg(2), 0) \o wr8(BusReg(3), 0)
    \o wr32(BusReg(4), <<0, 0>>)

\* The six writes of Calibrate_Fixed.
CalibrationAccesses(matrix) ==
    wr32(BusReg(6), matrix[1]) \o wr32(BusReg(7), matrix[2])
    \o wr32(BusReg(8), matrix[3]) \o wr32(BusReg(9), matrix[4])
    \o wr32(BusReg(10), matrix[5]) \o wr32(BusReg(11), matrix[6])

\* Cmd_READ_REG_ID
Cmd_READ_REG_ID ==
    HAL_SPI_Enable
    \o HAL_SPI_Write(48) \o HAL_SPI_Write(32) \o HAL_SPI_Write(0)
    \o HAL_SPI_ReadBuffer("r", 1)
    \o HAL_SPI_Disable

BusOp(n, a, v, p) == [name |-> n, addr |-> a, val |-> v, prog |-> p]

\* The operations of the register layer.
RegisterOperations ==
    {BusOp("wr32", a, v, wr32(a, v)) : a \in BusAddresses, v \in BusWords}
    \cup {BusOp("wr16", a, <<0, v>>, wr16(a, v)) : a \in BusAddresses, v \in BusHalves}
    \cup {BusOp("wr8", a, <<0, v>>, wr8(a, v)) : a \in BusAddresses, v \in BusBytes}
    \cup {BusOp("rd32", a, <<0, 0>>, rd32(a)) : a \in BusAddresses}
    \cup {BusOp("rd16", a, <<0, 0>>, rd16(a)) : a \in BusAddresses}
    \cup {BusOp("rd8", a, <<0, 0>>, rd8(a)) : a \in BusAddresses}
    \cup {BusOp("rdN", a, <<0, 0>>, rdN(a, 3)) : a \in BusAddresses}

\* The operations built on the register layer, as the transport sees them.
CompositeOperations ==
    {BusOp("Send_CMD", FifoWriteLocation + RAM_CMD, v,
           wr32(FifoWriteLocation + RAM_CMD, v)) : v \in BusWords}
    \cup {BusOp("UpdateFIFO", BusReg(1), <<0, FifoWriteLocation>>,
                wr16(BusReg(1), FifoWriteLocation)),
          BusOp("CoProFIFO_FreeSpace", BusReg(0), <<0, 0>>,
                rd16(BusReg(0)) \o rd16(BusReg(1))),
          BusOp("CoProWrCmdBuf", FifoWriteLocation + RAM_CMD, <<0, FT_CMD_SIZE>>,
                CoProWrCmdBuf_Chunk(FifoWriteLocation, <<1, 2, 3, 4>>)),
          BusOp("Wait4CoProFIFOEmpty", BusReg(0), <<0, 0>>, RecoveryAccesses),
          BusOp("Calibrate_Fixed", BusReg(6), <<0, 0>>,
                CalibrationAccesses(<<<<0, 3200>>, <<0, 0>>, <<0, 0>>,
                                      <<0, 0>>, <<0, 1920>>, <<0, 0>>>>)),
          BusOp("Cmd_READ_REG_ID", RAM_REG, <<0, 0>>, Cmd_READ_REG_ID)}

BusOperations == RegisterOperations \cup CompositeOperations

BusInit ==
    /\ spiOpen = 0 /\ spiNested = FALSE /\ wire = <<>>
    /\ mem = [c \in BusCells |-> 0]
    /\ rdBuf = <<>> /\ busRet = <<0, 0>> /\ busProg = <<>>
    /\ busCur = [name |-> "none", addr |-> 0, val |-> <<0, 0>>]
    /\ busPrev = [name |-> "none", addr |-> 0, val |-> <<0, 0>>, ok |-> TRUE]
    /\ busLog = <<>> /\ busOps = 0 /\ busFailed = FALSE
    /\ accessesAfterFail = 0

(***************************************************************************)
(* calculate_touch_matrix.  The operands are uint32_t, the numerators and  *)
(* k are int32_t: every sum and product is taken modulo 2^32 and read in   *)
(* two's complement.  The quotient of (int64_t)tmp << 16 by k is truncated *)
(* toward zero and stored in 32 bits.                                      *)
(***************************************************************************)
\* a + b modulo 2^32.
WrapAdd(a, b) ==
    IF b >= 0
    THEN IF a > MaxInt32 - b THEN (a + MinInt32) + (b + MinInt32) ELSE a + b
    ELSE IF a < MinInt32 - b THEN (a - MinInt32) + (b - MinInt32) ELSE a + b

\* -a modulo 2^32.
WrapNeg(a) == IF a = MinInt32 THEN a ELSE 0 - a

\* a - b modulo 2^32.
WrapSub(a, b) == WrapAdd(a, WrapNeg(b))

\* Factors up to this one have a product below 2^31.
SafeFactor == MaxInt32 \div 65536

\* a * n modulo 2^32 for n >= 0, by doubling.
RECURSIVE MulNat(_, _)
MulNat(a, n) ==
    IF a >= 0 - SafeFactor /\ a <= SafeFactor /\ n <= SafeFactor THEN a * n
    ELSE LET h == MulNat(WrapAdd(a, a), n \div 2)
         IN  IF n % 2 = 1 THEN WrapAdd(h, a) ELSE h

\* a * b modulo 2^32.
WrapMul(a, b) ==
    IF b >= 0 THEN MulNat(a, b)
    ELSE IF b = MinInt32 THEN (IF a % 2 = 0 THEN 0 ELSE MinInt32)
    ELSE WrapNeg(MulNat(a, 0 - b))

\* k of calculate_touch_matrix.
Determinant(tX, tY) ==
    WrapSub(WrapMul(WrapSub(tX[1], tX[3]), WrapSub(tY[2], tY[3])),
            WrapMul(WrapSub(tX[2], tX[3]), WrapSub(tY[1], tY[3])))

\* tmp of out_TransMatrix[0] and [3].
NumeratorA(d, tY) ==
    WrapSub(WrapMul(WrapSub(d[1], d[3]), WrapSub(tY[2], tY[3])),
            WrapMul(WrapSub(d[2], d[3]), WrapSub(tY[1], tY[3])))

\* tmp of out_TransMatrix[1] and [4].
NumeratorB(d, tX) ==
    WrapSub(WrapMul(WrapSub(tX[1], tX[3]), WrapSub(d[2], d[3])),
            WrapMul(WrapSub(d[1], d[3]), WrapSub(tX[2], tX[3])))

\* tmp of out_TransMatrix[2] and [5].
NumeratorC(d, tX, tY) ==
    WrapAdd(WrapAdd(
        WrapMul(tY[1], WrapSub(WrapMul(tX[3], d[2]), WrapMul(tX[2], d[3]))),
        WrapMul(tY[2], WrapSub(WrapMul(tX[1], d[3]), WrapMul(tX[3], d[1])))),
        WrapMul(tY[3], WrapSub(WrapMul(tX[2], d[1]), WrapMul(tX[1], d[2]))))

\* -|x|, which two's complement always has.
NegAbs(x) == IF x > 0 THEN 0 - x ELSE x

\* floor(|tmp| / |kk|) for kk # 0.
IntPart(tmp, kk) ==
    IF kk = MinInt32 THEN (IF tmp = MinInt32 THEN 1 ELSE 0)
    ELSE LET m == 0 - NegAbs(kk)
         IN  IF tmp = MinInt32
             THEN (MaxInt32 \div m) + (IF MaxInt32 % m = m - 1 THEN 1 ELSE 0)
             ELSE (0 - NegAbs(tmp)) \div m

\* -(|tmp| mod |kk|) for kk # 0.
NegRem(tmp, kk) ==
    IF kk = MinInt32 THEN (IF tmp = MinInt32 THEN 0 ELSE NegAbs(tmp))
    ELSE LET m == 0 - NegAbs(kk)
         IN  IF tmp = MinInt32
             THEN 0 - (((MaxInt32 % m) + 1) % m)
             ELSE 0 - ((0 - NegAbs(tmp)) % m)

\* The next n bits of the quotient -r / -d for d < r <= 0, after acc.
RECURSIVE FracBits(_, _, _, _)
FracBits(r, d, n, acc) ==
    IF n = 0 THEN acc
    ELSE IF r <= d - r
         THEN FracBits(r - (d - r), d, n - 1, 2 * acc + 1)
         ELSE FracBits(r + r, d, n - 1, 2 * acc)

\* ((int64_t)tmp << 16) / kk for kk # 0, stored in 32 bits.
Coefficient(tmp, kk) ==
    LET h == IntPart(tmp, kk) % 65536
        f == FracBits(NegRem(tmp, kk), NegAbs(kk), 16, 0)
        p == IF h >= 32768 THEN (h - 65536) * 65536 + f ELSE h * 65536 + f
    IN  IF (tmp < 0) = (kk < 0) THEN p ELSE WrapNeg(p)

\* The six coefficients for kk # 0.
calculate_touch_matrix(dX, dY, tX, tY) ==
    LET kk == Determinant(tX, tY)
    IN  <<Coefficient(NumeratorA(dX, tY), kk),
          Coefficient(NumeratorB(dX, tX), kk),
          Coefficient(NumeratorC(dX, tX, tY), kk),
          Coefficient(NumeratorA(dY, tY), kk),
          Coefficient(NumeratorB(dY, tX), kk),
          Coefficient(NumeratorC(dY, tX, tY), kk)>>

\* What the six coefficients can hold after a division by zero that did not
\* end the program.
IndeterminateMatrices == {<<0, 0, 0, 0, 0, 0>>, <<-1, -1, -1, -1, -1, -1>>}

\* (a * x + b * y + c) >> 16 for 16.16 coefficients a, b, c, computed from
\* their integer and fractional halves.
ApplyTransform(a, b, c, x, y) ==
    (a \div 65536) * x + (b \div 65536) * y + (c \div 65536)
    + (((a % 65536) * x + (b % 65536) * y + (c % 65536)) \div 65536)

\* The largest coordinate of a calibration point in the enumerated inputs.
MaxCoord == 2000

CoordValues == {0, MaxCoord \div 2, MaxCoord}

DisplayValues == {0, MaxCoord}

Triples(S) == {<<a, b, c>> : a \in S, b \in S, c \in S}

CalInit ==
    /\ displayX = <<0, 0, 0>> /\ displayY = <<0, 0, 0>>
    /\ touchX = <<0, 0, 0>> /\ touchY = <<0, 0, 0>>
    /\ detK = 0 /\ TransMatrix = <<>> /\ divByZero = FALSE
    /\ calOp = "none" /\ calArgs = <<>> /\ calCount = 0
    /\ calWrites = <<>> /\ calCursor = 0 /\ calRuns = {}
    /\ pressed = 0 /\ pointCount = 0 /\ calLog = <<>> /\ calRet = "none"

(***************************************************************************)
(* Initial states.                                                         *)
(***************************************************************************)
LocalsInit ==
    /\ fsMode = "call" /\ inUpload = FALSE /\ room = 0
    /\ cmdBufferRd = 0 /\ cmdBufferWr = 0 /\ getfreespace = 0
    /\ ReadReg = 0 /\ errLen = 0 /\ errRead = 0
    /\ Patch_Add = 0 /\ rcIdx = 1 /\ rcRet = "init"
    /\ Remaining = 0 /\ TransferSize = 0

GhostInit ==
    /\ done = "none" /\ calls = 0 /\ faults = 0 /\ wordSteps = 0 /\ polls = 0
    /\ wroteReg = FALSE /\ recCount = 0 /\ pendingFault = FALSE
    /\ rcLog = <<>> /\ cBefore = 0 /\ patchBefore = 0
    /\ weDrainedAtCall = FALSE /\ enq = 0 /\ upClean = FALSE
    /\ unconsumed = 0 /\ overwrote = FALSE
    /\ xferAddr = 0 /\ xferLen = 0 /\ xferCount = 0
    /\ buffOff = 0 /\ chunks = 0 /\ count = <<0, 0>>
    /\ cursorAtEntry = 0
    /\ BusInit /\ CalInit
    /\ length = 0

\* After Eve_Reset inside EVE_Init: cursor 0, the chip out of hardware reset,
\* REG_CMD_READ possibly still reporting a fault from before the reset.
InitPowerOn ==
    /\ FifoWriteLocation = 0
    /\ regCmdRead \in {0, FAULT_SENTINEL}
    /\ regCmdWrite = 0 /\ regCmdDl = 0 /\ regCpuReset = 0
    /\ regPatchPtr \in PatchValues
    /\ pc = "init"
    /\ LocalsInit /\ GhostInit

\* The program running, FIFO drained at offset s.
InitRunning ==
    /\ FifoWriteLocation \in StartCursors \ {0}
    /\ regCmdRead = FifoWriteLocation
    /\ regCmdWrite = FifoWriteLocation
    /\ regCmdDl = 0 /\ regCpuReset = 0
    /\ regPatchPtr \in PatchValues
    /\ pc = "idle"
    /\ LocalsInit /\ GhostInit

Init == InitPowerOn \/ InitRunning

(***************************************************************************)
(* The coprocessor.                                                        *)
(***************************************************************************)
\* Bytes between the device's read cursor and the published write cursor.
Occupied == (regCmdWrite - regCmdRead) % FT_CMD_FIFO_SIZE

DevRunning ==
    /\ regCpuReset = 0
    /\ regCmdRead # FAULT_SENTINEL
    /\ regCmdRead # regCmdWrite

\* Sizes of one step: one word, one burst, or everything published.
DevSteps == {d \in {FT_CMD_SIZE, FT_CMD_SIZE * DevBurstWords, Occupied} :
               /\ d > 0 /\ d <= Occupied
               /\ (d = FT_CMD_SIZE => wordSteps < MaxWordSteps)}

\* The device consumes commands: REG_CMD_READ moves toward REG_CMD_WRITE.
DeviceConsume ==
    /\ DevRunning
    /\ UNCHANGED <<xferVars, extVars>>
    /\ \E d \in DevSteps :
         /\ regCmdRead' = (regCmdRead + d) % FT_CMD_FIFO_SIZE
         /\ unconsumed' = unconsumed - d
         /\ wordSteps' = IF d = FT_CMD_SIZE THEN wordSteps + 1 ELSE wordSteps
    /\ regCmdDl' = FT_CMD_SIZE
    /\ UNCHANGED <<FifoWriteLocation, pc, regCmdWrite, regPatchPtr, regCpuReset,
                   fsVars, weVars, upVars, done, calls, faults, polls, wroteReg,
                   recCount, pendingFault, rcLog, cBefore, patchBefore,
                   weDrainedAtCall, enq, upClean, overwrote>>

\* A command faults: REG_CMD_READ reports the sentinel until the host recovers.
DeviceFault ==
    /\ DevRunning
    /\ UNCHANGED <<xferVars, extVars>>
    /\ faults < MaxFaults
    /\ regCmdRead' = FAULT_SENTINEL
    /\ faults' = faults + 1
    /\ UNCHANGED <<wordSteps, FifoWriteLocation, pc, regCmdWrite, regCmdDl, regPatchPtr,
                   regCpuReset, fsVars, weVars, upVars, done, calls, polls,
                   wroteReg, recCount, pendingFault, rcLog, cBefore, patchBefore,
                   weDrainedAtCall, enq, upClean, unconsumed, overwrote>>

\* A host write to a device register.  Halting the processor (REG_CPU_RESET
\* nonzero) loses the patch pointer and the commands in flight.
DevWrite(reg, val) ==
    /\ regCmdRead' = IF reg = "REG_CMD_READ" THEN val ELSE regCmdRead
    /\ regCmdWrite' = IF reg = "REG_CMD_WRITE" THEN val ELSE regCmdWrite
    /\ regCmdDl' = IF reg = "REG_CMD_DL" THEN val ELSE regCmdDl
    /\ regCpuReset' = IF reg = "REG_CPU_RESET" THEN val ELSE regCpuReset
    /\ regPatchPtr' = IF reg = "REG_COPRO_PATCH_PTR" THEN val
                      ELSE IF reg = "REG_CPU_RESET" /\ val # 0 THEN 0
                      ELSE regPatchPtr

DevRead(reg) ==
    CASE reg = "REG_CMD_READ" -> regCmdRead
      [] reg = "REG_CMD_WRITE" -> regCmdWrite
      [] reg = "REG_CMD_DL" -> regCmdDl
      [] reg = "REG_CPU_RESET" -> regCpuReset
      [] reg = "REG_COPRO_PATCH_PTR" -> regPatchPtr

(***************************************************************************)
(* Entering an API call.  The locals of the previous call are dead: they   *)
(* and the per-call bookkeeping start afresh.                              *)
(***************************************************************************)
Enter(mode, up, r, rem, drained, clean) ==
    /\ pc = "idle" /\ calls < MaxCalls
    /\ calls' = calls + 1
    /\ fsMode' = mode /\ inUpload' = up /\ room' = r
    /\ cmdBufferRd' = 0 /\ cmdBufferWr' = 0 /\ getfreespace' = 0
    /\ ReadReg' = 0 /\ errLen' = 0 /\ errRead' = 0
    /\ Patch_Add' = 0 /\ rcIdx' = 1 /\ rcRet' = "init"
    /\ Remaining' = rem /\ TransferSize' = 0
    /\ polls' = 0 /\ wroteReg' = FALSE /\ recCount' = 0
    /\ rcLog' = <<>> /\ cBefore' = 0 /\ patchBefore' = 0
    /\ weDrainedAtCall' = drained /\ upClean' = clean /\ overwrote' = FALSE

\* A call that is not CoProWrCmdBuf and writes nothing into RAM_CMD.
NoTransfer ==
    /\ xferAddr' = 0 /\ xferLen' = 0 /\ xferCount' = 0
    /\ buffOff' = 0 /\ chunks' = 0 /\ count' = <<0, 0>>
    /\ cursorAtEntry' = 0
    /\ UNCHANGED extVars

(***************************************************************************)
(* Send_CMD and UpdateFIFO.                                                *)
(***************************************************************************)
\* Send_CMD(data): wr32 at RAM_CMD + FifoWriteLocation, then advance and wrap.
Send_CMD ==
    /\ Enter("call", FALSE, 0, 0, FALSE, FALSE)
    /\ xferAddr' = FifoWriteLocation + RAM_CMD
    /\ xferLen' = FT_CMD_SIZE
    /\ xferCount' = 1
    /\ buffOff' = 0 /\ chunks' = 0 /\ count' = <<0, 0>>
    /\ cursorAtEntry' = 0
    /\ UNCHANGED extVars
    /\ FifoWriteLocation' = CursorAfterCmd(FifoWriteLocation)
    /\ enq' = enq + FT_CMD_SIZE
    /\ done' = "Send_CMD"
    /\ UNCHANGED <<pc, devVars, faults, wordSteps, pendingFault, unconsumed>>

\* A publish that writes the device's read cursor instead of the host cursor.
PublishedValue_Read == regCmdRead

\* A publish that writes back what the register already holds.
PublishedValue_Stale == regCmdWrite

\* The value UpdateFIFO and CoProWrCmdBuf write to REG_CMD_WRITE.
PublishedValue == FifoWriteLocation

\* UpdateFIFO(): wr16(REG_CMD_WRITE, FifoWriteLocation).
UpdateFIFO ==
    /\ Enter("call", FALSE, 0, 0, FALSE, FALSE)
    /\ unconsumed' = unconsumed + ((PublishedValue - regCmdWrite) % FT_CMD_FIFO_SIZE)
    /\ DevWrite("REG_CMD_WRITE", PublishedValue)
    /\ enq' = 0
    /\ done' = "UpdateFIFO"
    /\ NoTransfer
    /\ UNCHANGED <<FifoWriteLocation, pc, faults, wordSteps, pendingFault>>

(***************************************************************************)
(* CoProFIFO_FreeSpace and Wait4CoProFIFO.                                 *)
(***************************************************************************)
\* The application calls CoProFIFO_FreeSpace().
Call_FreeSpace ==
    /\ Enter("call", FALSE, 0, 0, FALSE, FALSE)
    /\ pc' = "fs_rd"
    /\ done' = "none"
    /\ NoTransfer
    /\ UNCHANGED <<FifoWriteLocation, devVars, faults, wordSteps, pendingFault,
                   enq, unconsumed>>

\* The application calls Wait4CoProFIFO(r).
Call_Wait4CoProFIFO ==
    /\ \E r \in Rooms : Enter("wait", FALSE, r, 0, FALSE, FALSE)
    /\ pc' = "fs_rd"
    /\ done' = "none"
    /\ NoTransfer
    /\ UNCHANGED <<FifoWriteLocation, devVars, faults, wordSteps, pendingFault,
                   enq, unconsumed>>

\* cmdBufferRd = rd16(REG_CMD_READ).  Wait4CoProFIFO has no test of the value.
FS_ReadRd ==
    /\ pc = "fs_rd"
    /\ UNCHANGED <<xferVars, extVars>>
    /\ cmdBufferRd' = DevRead("REG_CMD_READ")
    /\ polls' = IF fsMode = "wait" THEN Min(polls + 1, PollCap) ELSE polls
    /\ pendingFault' = (pendingFault \/
                        (fsMode = "wait" /\ regCmdRead = FAULT_SENTINEL))
    /\ pc' = "fs_wr"
    /\ UNCHANGED <<FifoWriteLocation, devVars, fsMode, inUpload, room,
                   cmdBufferWr, getfreespace, weVars, upVars, done, calls, faults,
                   wordSteps, wroteReg, recCount, rcLog, cBefore, patchBefore,
                   weDrainedAtCall, enq, upClean, unconsumed, overwrote>>

\* The write cursor CoProFIFO_FreeSpace computes with: rd16(REG_CMD_WRITE).
FreeSpaceWriteCursor == DevRead("REG_CMD_WRITE")

\* The loop test with a limit on the number of polls.
WaitAgain_Limited(free, r) == free < r /\ polls < PollCap

\* The loop test of Wait4CoProFIFO: do ... while (getfreespace < room).
WaitAgain(free, r) == free < r

\* cmdBufferWr = rd16(REG_CMD_WRITE); retval computed; the caller continues.
FS_ReadWr ==
    /\ pc = "fs_wr"
    /\ UNCHANGED <<xferVars, extVars>>
    /\ cmdBufferWr' = FreeSpaceWriteCursor
    /\ getfreespace' = FreeSpaceValue(cmdBufferRd, cmdBufferWr')
    /\ IF fsMode = "call"
       THEN pc' = "idle" /\ done' = "CoProFIFO_FreeSpace"
       ELSE IF WaitAgain(getfreespace', room)
            THEN pc' = "fs_rd" /\ done' = done
            ELSE IF inUpload
                 THEN pc' = "up_xfer" /\ done' = done
                 ELSE pc' = "idle" /\ done' = "Wait4CoProFIFO"
    /\ UNCHANGED <<FifoWriteLocation, devVars, fsMode, inUpload, room,
                   cmdBufferRd, weVars, upVars, calls, faults, wordSteps, polls,
                   wroteReg, recCount, pendingFault, rcLog, cBefore, patchBefore,
                   weDrainedAtCall, enq, upClean, unconsumed, overwrote>>

(***************************************************************************)
(* Wait4CoProFIFOEmpty and the recovery sequence.                          *)
(***************************************************************************)
\* The application calls Wait4CoProFIFOEmpty().
Call_Wait4CoProFIFOEmpty ==
    /\ Enter("call", FALSE, 0, 0,
             regCmdRead = regCmdWrite /\ regCmdWrite = FifoWriteLocation, FALSE)
    /\ pc' = "we_poll"
    /\ done' = "none"
    /\ NoTransfer
    /\ UNCHANGED <<FifoWriteLocation, devVars, faults, wordSteps, pendingFault,
                   enq, unconsumed>>

\* The fault test taking every nonzero value for a fault.
IsFault_NonZero(v) == v # 0

\* if (ReadReg == 0xFFF)
IsFault(v) == v = FAULT_SENTINEL

\* ReadReg = rd16(REG_CMD_READ); the fault test.
WE_Poll ==
    /\ pc = "we_poll"
    /\ UNCHANGED <<xferVars, extVars>>
    /\ ReadReg' = DevRead("REG_CMD_READ")
    /\ polls' = Min(polls + 1, PollCap)
    /\ recCount' = 0
    /\ IF IsFault(ReadReg')
       THEN pc' = "we_diag" /\ pendingFault' = TRUE
       ELSE pc' = "we_cmp" /\ pendingFault' = pendingFault
    /\ UNCHANGED <<FifoWriteLocation, devVars, fsVars, errLen, errRead,
                   Patch_Add, rcIdx, rcRet, upVars, done, calls, faults,
                   wordSteps, wroteReg, rcLog, cBefore, patchBefore,
                   weDrainedAtCall, enq, upClean, unconsumed, overwrote>>

\* RAM_ERR_REPORT and the two bytes behind it, by offset, holding a string of
\* len characters: a zero at offset len, something else everywhere else.
ErrReport(len) ==
    [Offset \in 0 .. ERR_REPORT_MAX + 1 |-> IF Offset = len THEN 0 ELSE 65]

\* The loop test without the bound on Offset.
ErrLoopAgain_Unbounded(ErrChar, Offset) == ErrChar # 0

\* while ((ErrChar != 0) && (Offset < 128))
ErrLoopAgain(ErrChar, Offset) == ErrChar # 0 /\ Offset < ERR_REPORT_MAX

\* Numbers of reads after which the test ends the loop: after n reads
\* ErrChar is the byte at offset n - 1 and Offset is n.
ErrLoopExits(report) ==
    {n \in 1 .. ERR_REPORT_MAX + 2 : ~ErrLoopAgain(report[n - 1], n)}

\* Bytes the error-report loop reads of a string of length len: the body runs
\* once, then until the test fails for the first time.
ErrBytesRead(len) ==
    CHOOSE n \in ErrLoopExits(ErrReport(len)) :
        \A m \in ErrLoopExits(ErrReport(len)) : n <= m

\* The error-report loop: rd8(RAM_ERR_REPORT + Offset) until a zero byte.
WE_Diag ==
    /\ pc = "we_diag"
    /\ UNCHANGED <<xferVars, extVars>>
    /\ \E len \in ErrLengths :
         /\ errLen' = len
         /\ errRead' = ErrBytesRead(len)
    /\ pc' = "rc" /\ rcIdx' = 1 /\ rcRet' = "we"
    /\ rcLog' = <<>>
    /\ cBefore' = FifoWriteLocation
    /\ patchBefore' = regPatchPtr
    /\ UNCHANGED <<FifoWriteLocation, devVars, fsVars, ReadReg, Patch_Add,
                   upVars, done, calls, faults, wordSteps, polls, wroteReg,
                   recCount, pendingFault, weDrainedAtCall, enq, upClean,
                   unconsumed, overwrote>>

\* RecoverySteps with the write of REG_CMD_DL forgotten.
RecoverySteps_SkipDl ==
    << [op |-> "rd", reg |-> "REG_COPRO_PATCH_PTR", val |-> 0],
       [op |-> "wr", reg |-> "REG_CPU_RESET", val |-> 1],
       [op |-> "wr", reg |-> "REG_CMD_READ", val |-> 0],
       [op |-> "wr", reg |-> "REG_CMD_WRITE", val |-> 0],
       [op |-> "wr", reg |-> "REG_CPU_RESET", val |-> 0],
       [op |-> "wrPatch", reg |-> "REG_COPRO_PATCH_PTR", val |-> 0] >>

\* RecoverySteps with the patch pointer read after the processor is halted.
RecoverySteps_LateRead ==
    << [op |-> "wr", reg |-> "REG_CPU_RESET", val |-> 1],
       [op |-> "rd", reg |-> "REG_COPRO_PATCH_PTR", val |-> 0],
       [op |-> "wr", reg |-> "REG_CMD_READ", val |-> 0],
       [op |-> "wr", reg |-> "REG_CMD_WRITE", val |-> 0],
       [op |-> "wr", reg |-> "REG_CMD_DL", val |-> 0],
       [op |-> "wr", reg |-> "REG_CPU_RESET", val |-> 0],
       [op |-> "wrPatch", reg |-> "REG_COPRO_PATCH_PTR", val |-> 0] >>

\* RecoverySteps with the write of REG_CMD_READ forgotten.
RecoverySteps_KeepRead ==
    << [op |-> "rd", reg |-> "REG_COPRO_PATCH_PTR", val |-> 0],
       [op |-> "wr", reg |-> "REG_CPU_RESET", val |-> 1],
       [op |-> "wr", reg |-> "REG_CMD_WRITE", val |-> 0],
       [op |-> "wr", reg |-> "REG_CMD_DL", val |-> 0],
       [op |-> "wr", reg |-> "REG_CPU_RESET", val |-> 0],
       [op |-> "wrPatch", reg |-> "REG_COPRO_PATCH_PTR", val |-> 0] >>

\* The register accesses of the recovery, in program order ("wrPatch"
\* writes the local Patch_Add).
RecoverySteps ==
    << [op |-> "rd", reg |-> "REG_COPRO_PATCH_PTR", val |-> 0],
       [op |-> "wr", reg |-> "REG_CPU_RESET", val |-> 1],
       [op |-> "wr", reg |-> "REG_CMD_READ", val |-> 0],
       [op |-> "wr", reg |-> "REG_CMD_WRITE", val |-> 0],
       [op |-> "wr", reg |-> "REG_CMD_DL", val |-> 0],
       [op |-> "wr", reg |-> "REG_CPU_RESET", val |-> 0],
       [op |-> "wrPatch", reg |-> "REG_COPRO_PATCH_PTR", val |-> 0] >>

\* One register access of the recovery.
RC_Step ==
    /\ pc = "rc"
    /\ UNCHANGED <<xferVars, extVars>>
    /\ LET st == RecoverySteps[rcIdx]
           v == IF st.op = "wrPatch" THEN Patch_Add ELSE st.val
           last == rcIdx = Len(RecoverySteps)
       IN /\ IF st.op = "rd"
             THEN /\ Patch_Add' = DevRead(st.reg)
                  /\ rcLog' = Append(rcLog, <<"rd", st.reg, DevRead(st.reg)>>)
                  /\ UNCHANGED <<devVars, wroteReg, unconsumed>>
             ELSE /\ DevWrite(st.reg, v)
                  /\ rcLog' = Append(rcLog, <<"wr", st.reg, v>>)
                  /\ wroteReg' = TRUE
                  /\ unconsumed' = IF st.reg = "REG_CPU_RESET" /\ v # 0
                                   THEN 0 ELSE unconsumed
                  /\ UNCHANGED Patch_Add
          /\ rcIdx' = IF last THEN 1 ELSE rcIdx + 1
          /\ IF last
             THEN /\ pc' = IF rcRet = "we" THEN "we_cmp" ELSE "idle"
                  /\ done' = IF rcRet = "we" THEN done ELSE "EVE_Init"
                  /\ recCount' = recCount + 1
                  /\ pendingFault' = FALSE
             ELSE UNCHANGED <<pc, done, recCount, pendingFault>>
    /\ UNCHANGED <<FifoWriteLocation, fsVars, ReadReg, errLen, errRead, rcRet,
                   upVars, calls, faults, wordSteps, polls, cBefore, patchBefore,
                   weDrainedAtCall, enq, upClean, overwrote>>

\* The value the loop test compares ReadReg with: rd16(REG_CMD_WRITE).
WE_ExitValue == DevRead("REG_CMD_WRITE")

\* The loop test written as "the read cursor is behind the write cursor".
WE_LoopAgain_Behind(r, w) == r < w

\* The loop test inverted.
WE_LoopAgain_Inverted(r, w) == r = w

\* do ... while (ReadReg != rd16(REG_CMD_WRITE));
WE_LoopAgain(r, w) == r # w

WE_Compare ==
    /\ pc = "we_cmp"
    /\ UNCHANGED <<xferVars, extVars>>
    /\ IF WE_LoopAgain(ReadReg, WE_ExitValue)
       THEN pc' = "we_poll" /\ done' = done
       ELSE pc' = "idle" /\ done' = "Wait4CoProFIFOEmpty"
    /\ UNCHANGED <<FifoWriteLocation, devVars, fsVars, weVars, upVars, calls,
                   faults, wordSteps, polls, wroteReg, recCount, pendingFault,
                   rcLog, cBefore, patchBefore, weDrainedAtCall, enq, upClean,
                   unconsumed, overwrote>>

(***************************************************************************)
(* CoProWrCmdBuf.                                                          *)
(***************************************************************************)
\* A wait for one command word only.
UploadRoom_Word == FT_CMD_SIZE

\* The argument of the Wait4CoProFIFO call at the top of the chunk loop.
UploadRoom == WorkBuffSz

\* The application calls CoProWrCmdBuf(buff, count) with a count of the set
\* counts: Remaining = count, then the first Wait4CoProFIFO of the loop.
CallUpload(counts) ==
    /\ \E c \in counts :
         /\ Enter("wait", TRUE, UploadRoom, ToInt32(c), FALSE,
                  /\ FifoWriteLocation = regCmdWrite
                  /\ faults = 0
                  /\ regCmdRead # FAULT_SENTINEL)
         /\ count' = c
    /\ xferAddr' = 0 /\ xferLen' = 0 /\ xferCount' = 0
    /\ buffOff' = 0 /\ chunks' = 0
    /\ cursorAtEntry' = FifoWriteLocation
    /\ UNCHANGED extVars
    /\ pc' = "fs_rd"
    /\ done' = "none"
    /\ UNCHANGED <<FifoWriteLocation, devVars, faults, wordSteps, pendingFault,
                   enq, unconsumed>>

Call_CoProWrCmdBuf == CallUpload(UploadCounts)

Call_LongUpload ==
    /\ calls = 0
    /\ CallUpload(LongUploadCounts)

\* One upload of a count of ChunkCounts.
Call_ChunkUpload ==
    /\ calls = 0
    /\ CallUpload(ChunkCounts)

\* Some byte of the chunk [cursor, cursor + size) inside the window is one
\* the device has not consumed yet.
ChunkHitsUnconsumed(cursor, size) ==
    \E k \in 0 .. (size \div FT_CMD_SIZE) - 1 :
       LET o == cursor + FT_CMD_SIZE * k
       IN /\ o < FT_CMD_FIFO_SIZE
          /\ \/ unconsumed >= FT_CMD_FIFO_SIZE
             \/ ((o - regCmdRead) % FT_CMD_FIFO_SIZE) < Occupied

\* One chunk: TransferSize is chosen, the bytes are streamed in one
\* transaction at RAM_CMD + FifoWriteLocation, the cursor advances.
UP_Transfer ==
    /\ pc = "up_xfer"
    /\ TransferSize' = ChunkSize(Remaining)
    /\ overwrote' = (overwrote \/
                     ChunkHitsUnconsumed(FifoWriteLocation, TransferSize'))
    /\ xferAddr' = FifoWriteLocation + RAM_CMD
    /\ xferLen' = TransferSize'
    /\ xferCount' = xferCount + 1
    /\ buffOff' = buffOff + TransferSize'
    /\ FifoWriteLocation' = CursorAfterChunk(FifoWriteLocation, TransferSize')
    /\ pc' = "up_pub"
    /\ UNCHANGED <<chunks, count, cursorAtEntry, extVars>>
    /\ UNCHANGED <<devVars, fsVars, weVars, Remaining, done, calls, faults,
                   wordSteps, polls, wroteReg, recCount, pendingFault, rcLog,
                   cBefore, patchBefore, weDrainedAtCall, enq, upClean,
                   unconsumed>>

\* while (Remaining > 0)
UploadAgain(rem) == rem > 0

\* wr16(REG_CMD_WRITE, FifoWriteLocation); Remaining -= TransferSize; the
\* loop test.
UP_Publish ==
    /\ pc = "up_pub"
    /\ unconsumed' = unconsumed + ((PublishedValue - regCmdWrite) % FT_CMD_FIFO_SIZE)
    /\ DevWrite("REG_CMD_WRITE", PublishedValue)
    /\ wroteReg' = TRUE
    /\ enq' = 0
    /\ Remaining' = RemainingAfter(Remaining, TransferSize)
    /\ chunks' = chunks + 1
    /\ UNCHANGED <<xferAddr, xferLen, xferCount, buffOff, count, cursorAtEntry,
                   extVars>>
    /\ IF UploadAgain(Remaining')
       THEN pc' = "fs_rd" /\ done' = done
       ELSE pc' = "idle" /\ done' = "CoProWrCmdBuf"
    /\ UNCHANGED <<FifoWriteLocation, fsVars, weVars, TransferSize, calls,
                   faults, wordSteps, polls, recCount, pendingFault, rcLog,
                   cBefore, patchBefore, weDrainedAtCall, upClean, overwrote>>

(***************************************************************************)
(* EVE_Init: Eve_Reset, then the fault check.                              *)
(***************************************************************************)
\* An Eve_Reset that leaves the cursor where it is.
CursorAfterReset_Kept == FifoWriteLocation

\* FifoWriteLocation after Eve_Reset: FifoWriteLocation = 0.
CursorAfterReset == 0

\* Eve_Reset(): FifoWriteLocation = 0 and the chip goes through its hardware
\* reset; EVE_Init goes on to the fault check.
Eve_Reset ==
    /\ Enter("call", FALSE, 0, 0, FALSE, FALSE)
    /\ FifoWriteLocation' = CursorAfterReset
    /\ regCmdRead' \in {0, FAULT_SENTINEL}
    /\ regCmdWrite' = 0 /\ regCmdDl' = 0 /\ regCpuReset' = 0
    /\ regPatchPtr' \in PatchValues
    /\ pc' = "init"
    /\ enq' = 0 /\ unconsumed' = 0 /\ pendingFault' = FALSE
    /\ done' = "none"
    /\ NoTransfer
    /\ UNCHANGED <<faults, wordSteps>>

\* if (rd16(REG_CMD_READ) == 0xFFF) { the recovery sequence }
Init_FaultCheck ==
    /\ pc = "init"
    /\ UNCHANGED <<xferVars, extVars>>
    /\ IF IsFault(DevRead("REG_CMD_READ"))
       THEN /\ pc' = "rc" /\ rcIdx' = 1 /\ rcRet' = "init"
            /\ rcLog' = <<>>
            /\ cBefore' = FifoWriteLocation
            /\ patchBefore' = regPatchPtr
            /\ done' = done
       ELSE /\ pc' = "idle" /\ done' = "EVE_Init"
            /\ UNCHANGED <<rcIdx, rcRet, rcLog, cBefore, patchBefore>>
    /\ recCount' = 0
    /\ UNCHANGED <<FifoWriteLocation, devVars, fsVars, ReadReg, errLen, errRead,
                   Patch_Add, upVars, calls, faults, wordSteps, polls, wroteReg,
                   pendingFault, weDrainedAtCall, enq, upClean, unconsumed,
                   overwrote>>

(***************************************************************************)
(* The system.                                                             *)
(***************************************************************************)
Next ==
    \/ Send_CMD
    \/ UpdateFIFO
    \/ Call_FreeSpace
    \/ Call_Wait4CoProFIFO
    \/ FS_ReadRd
    \/ FS_ReadWr
    \/ Call_Wait4CoProFIFOEmpty
    \/ WE_Poll
    \/ WE_Diag
    \/ RC_Step
    \/ WE_Compare
    \/ Call_CoProWrCmdBuf
    \/ UP_Transfer
    \/ UP_Publish
    \/ Eve_Reset
    \/ Init_FaultCheck
    \/ DeviceConsume
    \/ DeviceFault

Spec == Init /\ [][Next]_vars

(***************************************************************************)
(* One long upload against a device that only drains: no fault, no other   *)
(* call.  It starts with cursor = REG_CMD_WRITE = REG_CMD_READ.            *)
(***************************************************************************)
InitUpload ==
    /\ FifoWriteLocation \in StartCursors
    /\ regCmdRead = FifoWriteLocation
    /\ regCmdWrite = FifoWriteLocation
    /\ regCmdDl = 0 /\ regCpuReset = 0
    /\ regPatchPtr \in PatchValues
    /\ pc = "idle"
    /\ LocalsInit /\ GhostInit

NextUpload ==
    \/ Call_LongUpload
    \/ FS_ReadRd
    \/ FS_ReadWr
    \/ UP_Transfer
    \/ UP_Publish
    \/ DeviceConsume

SpecUpload == InitUpload /\ [][NextUpload]_vars

(***************************************************************************)
(* One upload of every count of ChunkCounts, from a drained FIFO, against   *)
(* a device that only drains.                                              *)
(***************************************************************************)
NextChunks ==
    \/ Call_ChunkUpload
    \/ FS_ReadRd
    \/ FS_ReadWr
    \/ UP_Transfer
    \/ UP_Publish
    \/ DeviceConsume

SpecChunks == InitUpload /\ [][NextChunks]_vars

(***************************************************************************)
(* Wait4CoProFIFOEmpty against a fair device: the host keeps executing the  *)
(* wait it is in, and the coprocessor keeps consuming while REG_CMD_READ   *)
(* differs from REG_CMD_WRITE.  It faults at most MaxFaults times.         *)
(***************************************************************************)
\* A step of the host inside Wait4CoProFIFOEmpty.
DrainStep ==
    \/ WE_Poll
    \/ WE_Diag
    \/ RC_Step
    \/ WE_Compare

NextDrain ==
    \/ Send_CMD
    \/ UpdateFIFO
    \/ Call_Wait4CoProFIFOEmpty
    \/ WE_Poll
    \/ WE_Diag
    \/ RC_Step
    \/ WE_Compare
    \/ DeviceConsume
    \/ DeviceFault

SpecDrain ==
    /\ InitUpload
    /\ [][NextDrain]_vars
    /\ WF_vars(DrainStep)
    /\ WF_vars(DeviceConsume)

(***************************************************************************)
(* The two waits against a device that does not respond: REG_CMD_READ      *)
(* keeps the value it has, whatever has been published.                    *)
(***************************************************************************)
InitStuck ==
    /\ regCmdWrite \in StuckWrites
    /\ FifoWriteLocation = regCmdWrite
    /\ regCmdRead \in AlignedOffsets
    /\ regCmdDl = 0 /\ regCpuReset = 0
    /\ regPatchPtr \in PatchValues
    /\ pc = "idle"
    /\ LocalsInit /\ GhostInit

NextStuck ==
    \/ Call_Wait4CoProFIFO
    \/ FS_ReadRd
    \/ FS_ReadWr
    \/ Call_Wait4CoProFIFOEmpty
    \/ WE_Poll
    \/ WE_Compare

SpecStuck == InitStuck /\ [][NextStuck]_vars

(***************************************************************************)
(* CoProFIFO_FreeSpace as a function of the two register values it reads.  *)
(***************************************************************************)
InitFree ==
    /\ FifoWriteLocation = 0
    /\ regCmdRead \in ReadValues
    /\ regCmdWrite \in AlignedOffsets
    /\ regCmdDl = 0 /\ regCpuReset = 1
    /\ regPatchPtr = 0
    /\ pc = "idle"
    /\ LocalsInit /\ GhostInit

\* The device is held in reset, so the two reads see one pair of values.
NextFree ==
    \/ /\ calls = 0
       /\ Call_FreeSpace
    \/ FS_ReadRd
    \/ FS_ReadWr

SpecFree == InitFree /\ [][NextFree]_vars

(***************************************************************************)
(* Properties.                                                             *)
(***************************************************************************)

\* C1: after any sequence of Send_CMD, UpdateFIFO, CoProWrCmdBuf (any byte
\* count), the waits and the fault recoveries, starting from Eve_Reset, the
\* host write cursor FifoWriteLocation is a multiple of 4 and lies in
\* [0, 4096).
C1_CursorAlignedInWindow ==
    /\ FifoWriteLocation % 4 = 0
    /\ 0 <= FifoWriteLocation
    /\ FifoWriteLocation < 4096

\* C1 witness: an upload has returned whose last chunk took the cursor past
\* the end of the window.
C1_Witness ==
    /\ pc = "idle" /\ done = "CoProWrCmdBuf"
    /\ 0 < FifoWriteLocation /\ FifoWriteLocation < TransferSize

\* C2: starting from a drained FIFO, after n bytes were enqueued by Send_CMD
\* with no publish (n a multiple of 4 below 4092), CoProFIFO_FreeSpace
\* returns 4092 - n.
C2_FreeSpaceCountsEnqueued ==
    (/\ pc = "idle" /\ done = "CoProFIFO_FreeSpace"
     /\ cmdBufferRd = cmdBufferWr
     /\ faults = 0
     /\ enq < 4092)
    => getfreespace = 4092 - enq

\* C3: for every pair of values the read-cursor and write-cursor registers
\* can hold (the sentinel 0xFFF as a read value included), the result of
\* CoProFIFO_FreeSpace never exceeds 4092.
C3_FreeSpaceAtMostBound ==
    (pc = "idle" /\ done = "CoProFIFO_FreeSpace") => getfreespace <= 4092

\* C4: for every pair of 4-aligned cursors in [0, 4096), CoProFIFO_FreeSpace
\* returns 4092 - occupied, occupied being the non-negative residue of
\* (write cursor - read cursor) modulo 4096, also when write is below read.
C4_FreeSpaceIsModular ==
    (/\ pc = "idle" /\ done = "CoProFIFO_FreeSpace"
     /\ cmdBufferRd % 4 = 0 /\ cmdBufferRd < 4096)
    => getfreespace = 4092 - ((cmdBufferWr - cmdBufferRd) % 4096)

\* C5: an upload started with the host cursor equal to REG_CMD_WRITE, against
\* a device that only drains, writes no chunk over bytes the device has not
\* consumed, and the published write cursor never equals the read cursor
\* while unconsumed bytes remain.
C5_UploadHonoursBackpressure ==
    upClean =>
       /\ ~overwrote
       /\ (regCmdWrite = regCmdRead => unconsumed = 0)

\* C6 (as amended): Wait4CoProFIFOEmpty returns only when the read-cursor
\* value it polled equals the device register REG_CMD_WRITE, the published
\* cursor; on return the device's read cursor equals that register.
C6_ReturnsWhenReadEqualsPublished ==
    (pc = "idle" /\ done = "Wait4CoProFIFOEmpty")
    => /\ ReadReg = regCmdWrite
       /\ regCmdRead = regCmdWrite

\* C6 as stated: Wait4CoProFIFOEmpty returns only when the device read cursor
\* equals the host-owned cursor that Send_CMD advances.
C6_ReturnsWhenReadEqualsHostCursor ==
    (pc = "idle" /\ done = "Wait4CoProFIFOEmpty")
    => regCmdRead = FifoWriteLocation

\* C6 witness: the wait returned after a recovery, the host cursor differing
\* from the published cursor.
C6_Witness ==
    /\ pc = "idle" /\ done = "Wait4CoProFIFOEmpty"
    /\ wroteReg
    /\ FifoWriteLocation # regCmdWrite

\* C7: when the device read cursor already equals the published write cursor
\* at the call, Wait4CoProFIFOEmpty returns after its first poll of
\* REG_CMD_READ: no second poll, no register write.
C7_DrainedReturnsAfterFirstPoll ==
    weDrainedAtCall =>
       /\ pc \in {"we_poll", "we_cmp", "idle"}
       /\ (pc = "we_poll" => polls = 0)
       /\ (pc \in {"we_cmp", "idle"} => polls = 1)
       /\ (pc = "idle" => done = "Wait4CoProFIFOEmpty")
       /\ ~wroteReg

\* C7 witness: Send_CMD, UpdateFIFO, the device drained, then the wait
\* returned after one poll.
C7_Witness ==
    /\ weDrainedAtCall
    /\ pc = "idle" /\ done = "Wait4CoProFIFOEmpty"
    /\ polls = 1
    /\ FifoWriteLocation = 4 /\ regCmdDl # 0

\* C8: a poll of Wait4CoProFIFOEmpty that read 0xFFF is followed, before the
\* next poll, by exactly one recovery: REG_CMD_READ, REG_CMD_WRITE and
\* REG_CMD_DL are 0, the patch pointer is restored, and FifoWriteLocation has
\* the value it had before the recovery.  A poll that read another value is
\* followed by none.
C8_OneRecoveryPerSentinelPoll ==
    (pc \in {"we_cmp", "we_poll"} /\ polls > 0)
    => IF ReadReg = 4095
       THEN /\ recCount = 1
            /\ regCmdRead = 0 /\ regCmdWrite = 0 /\ regCmdDl = 0
            /\ regPatchPtr = patchBefore
            /\ FifoWriteLocation = cBefore
       ELSE recCount = 0

\* C8 witness: the recovery of a sentinel poll is complete, the host cursor
\* nonzero and the display-list cursor zeroed from a nonzero value.
C8_Witness ==
    /\ pc = "we_cmp" /\ ReadReg = 4095 /\ recCount = 1
    /\ FifoWriteLocation # 0
    /\ patchBefore # 0

\* The register accesses of a recovery that found the patch pointer p.
ExpectedRecoveryLog(p) ==
    << <<"rd", "REG_COPRO_PATCH_PTR", p>>,
       <<"wr", "REG_CPU_RESET", 1>>,
       <<"wr", "REG_CMD_READ", 0>>,
       <<"wr", "REG_CMD_WRITE", 0>>,
       <<"wr", "REG_CMD_DL", 0>>,
       <<"wr", "REG_CPU_RESET", 0>>,
       <<"wr", "REG_COPRO_PATCH_PTR", p>> >>

\* C9: a recovery reads the patch pointer, halts the processor, zeroes the
\* read, write and display-list cursors in that order, resumes the processor
\* and writes the patch pointer back, in exactly this order; afterwards the
\* patch-pointer register holds the value it had before.
C9_RecoveryOrder ==
    /\ Len(rcLog) <= 7
    /\ rcLog = SubSeq(ExpectedRecoveryLog(patchBefore), 1, Len(rcLog))
    /\ (Len(rcLog) = 7 => regPatchPtr = patchBefore)

\* C9 witness: a recovery run by Wait4CoProFIFOEmpty is complete.
C9_Witness ==
    /\ Len(rcLog) = 7
    /\ rcRet = "we"
    /\ patchBefore # 0

\* C10: whenever a wait (Wait4CoProFIFO as well as Wait4CoProFIFOEmpty, the
\* Wait4CoProFIFO inside CoProWrCmdBuf included) reads the sentinel from
\* REG_CMD_READ, the device cursors are reset before that wait polls again
\* or returns.
C10_SentinelThenReset ==
    pendingFault => pc \in {"fs_wr", "we_diag", "rc"}

\* C11 (as amended): the recovery sequence (halt, zero the cursors, resume,
\* restore the patch pointer) runs only after a read of REG_CMD_READ that
\* returned the sentinel 0xFFF, made either by a poll of Wait4CoProFIFOEmpty
\* or by the check of EVE_Init after Eve_Reset; the processor is halted by no
\* other operation.
C11_RecoveryFromSentinelOnly ==
    /\ regCpuReset # 0 => pc = "rc"
    /\ pc = "rc" =>
         /\ rcIdx <= 3 => regCmdRead = FAULT_SENTINEL
         /\ rcRet = "we" => ReadReg = FAULT_SENTINEL /\ polls > 0
         /\ rcRet = "init" => FifoWriteLocation = 0 /\ polls = 0

\* C11 as stated: the recovery sequence runs only from a poll of
\* Wait4CoProFIFOEmpty; EVE_Init does not run it.
C11_RecoveryFromAwaitDrainedOnly ==
    pc = "rc" => rcRet = "we"

\* C11 witness: EVE_Init has halted the processor and is zeroing the cursors.
C11_Witness ==
    /\ pc = "rc" /\ rcRet = "init"
    /\ regCpuReset = 1 /\ rcIdx = 4

\* C12: Send_CMD issues one 32-bit write at RAM_CMD + c, c being
\* FifoWriteLocation at entry, then sets FifoWriteLocation to (c + 4) mod
\* 4096; it leaves REG_CMD_WRITE and every other device register unchanged,
\* so the device is running after it exactly if it was running before.
C12_EnqueueBuffersOnly ==
    [][ (done' = "Send_CMD" /\ calls' = calls + 1)
        => /\ xferCount' = 1
           /\ xferAddr' = RAM_CMD + FifoWriteLocation
           /\ xferLen' = 4
           /\ FifoWriteLocation' = (FifoWriteLocation + 4) % 4096
           /\ UNCHANGED devVars
           /\ (DevRunning' <=> DevRunning)
      ]_vars

\* C12 witness: Send_CMD wrote the last word of the window and the cursor
\* wrapped to 0, the device still drained at the old cursor.
C12_Witness ==
    /\ done = "Send_CMD"
    /\ xferAddr = RAM_CMD + 4092
    /\ FifoWriteLocation = 0
    /\ regCmdWrite = 4092 /\ regCmdRead = 4092

\* C13: UpdateFIFO writes FifoWriteLocation into REG_CMD_WRITE and changes
\* nothing else: the host cursor and the other registers are unchanged and
\* right after it the register equals the host cursor.  REG_CMD_WRITE is
\* changed by a host write only in UpdateFIFO, in the publish that ends an
\* upload chunk and in the zeroing step of the recovery sequence (the chip
\* reset of Eve_Reset, which is no register write, returns it to 0).
C13_PublishWritesCursor ==
    [][ /\ (done' = "UpdateFIFO" /\ calls' = calls + 1)
           => /\ regCmdWrite' = FifoWriteLocation
              /\ FifoWriteLocation' = FifoWriteLocation
              /\ regCmdWrite' = FifoWriteLocation'
              /\ UNCHANGED <<regCmdRead, regCmdDl, regPatchPtr, regCpuReset>>
              /\ pc' = pc
        /\ regCmdWrite' # regCmdWrite
           => \/ done' = "UpdateFIFO" /\ calls' = calls + 1
              \/ pc = "up_pub" /\ regCmdWrite' = FifoWriteLocation
              \/ pc = "rc" /\ rcIdx = 4 /\ regCmdWrite' = 0
              \/ pc = "idle" /\ pc' = "init" /\ regCmdWrite' = 0
      ]_vars

\* C13 witness: UpdateFIFO has published a cursor the device has not reached.
C13_Witness ==
    /\ pc = "idle" /\ done = "UpdateFIFO"
    /\ regCmdWrite = FifoWriteLocation
    /\ regCmdRead # regCmdWrite
    /\ unconsumed > 0

\* n rounded up to the next multiple of 4.
RoundUp4(n) == ((n + 3) \div 4) * 4

\* The number of chunk iterations the byte count <<hi, lo>> calls for:
\* max(1, ceil(length / 512)), where 2^31 bytes are 2^22 chunks.
ExpectedChunks(c) ==
    LET n == c[1] * 4194304 + (c[2] \div 512)
                 + (IF c[2] % 512 = 0 THEN 0 ELSE 1)
    IN IF n = 0 THEN 1 ELSE n

\* C14: CoProWrCmdBuf with a count in [0, 2^31) sends chunks of at most 512
\* bytes: every chunk but the last is exactly 512 bytes, the last is the
\* remaining count rounded up to a multiple of 4, and the sum of the chunk
\* sizes, which is the total advance of FifoWriteLocation modulo 4096, is
\* the count rounded up to a multiple of 4.
C14_ChunksSumToPaddedLength ==
    (inUpload /\ count[1] = 0) =>
       /\ pc = "up_pub" =>
            /\ TransferSize <= 512
            /\ Remaining > TransferSize => TransferSize = 512
            /\ Remaining <= TransferSize => TransferSize = RoundUp4(Remaining)
            /\ Remaining + (buffOff - TransferSize) = count[2]
       /\ FifoWriteLocation = (cursorAtEntry + buffOff) % 4096
       /\ (pc = "idle" /\ done = "CoProWrCmdBuf") =>
            /\ buffOff = RoundUp4(count[2])
            /\ FifoWriteLocation = (cursorAtEntry + RoundUp4(count[2])) % 4096

\* C14 witness: an upload of 1026 bytes has returned after chunks of 512,
\* 512 and 4 bytes, the cursor having wrapped.
C14_Witness ==
    /\ pc = "idle" /\ done = "CoProWrCmdBuf"
    /\ count = <<0, 1026>>
    /\ chunks = 3 /\ xferLen = 4 /\ buffOff = 1028
    /\ FifoWriteLocation < cursorAtEntry

\* C15: for an upload whose count is not a multiple of 4, every chunk starts
\* at a buffer offset that is a multiple of 4 and has a size that is a
\* multiple of 4, and the bytes written in all are the count rounded up to
\* the next multiple of 4.
C15_PaddedToWordBoundary ==
    (inUpload /\ count[2] % 4 # 0) =>
       /\ pc = "up_pub" =>
            /\ TransferSize % 4 = 0
            /\ (buffOff - TransferSize) % 4 = 0
       /\ (pc = "idle" /\ done = "CoProWrCmdBuf") =>
            <<0, buffOff>> = <<count[1], RoundUp4(count[2])>>

\* C16 (as amended): for each chunk of an upload the steps are, in order:
\* Wait4CoProFIFO with the threshold 512 whatever the size of the chunk (the
\* chunk is written only after a poll found at least 512 bytes free); one
\* write transaction at RAM_CMD + FifoWriteLocation carrying the chunk; the
\* cursor advanced by the chunk size modulo 4096; the publish.  No chunk is
\* written before the publish of the previous one.
C16_ChunkStepsInOrder ==
    [][ /\ (inUpload /\ pc = "fs_wr" /\ pc' # pc)
           => (pc' = "up_xfer" <=> getfreespace' >= 512)
        /\ (inUpload /\ pc \in {"fs_rd", "fs_wr", "up_xfer"})
           => /\ room = 512
              /\ xferCount = chunks
              /\ chunks > 0 => regCmdWrite = FifoWriteLocation
        /\ pc = "up_xfer"
           => /\ getfreespace >= 512
              /\ pc' # pc
                 => /\ pc' = "up_pub"
                    /\ xferCount' = xferCount + 1
                    /\ xferAddr' = RAM_CMD + FifoWriteLocation
                    /\ xferLen' = TransferSize'
                    /\ FifoWriteLocation' = (FifoWriteLocation + TransferSize') % 4096
                    /\ regCmdWrite' = regCmdWrite
        /\ pc = "up_pub"
           => /\ xferCount = chunks + 1
              /\ pc' # pc
                 => /\ regCmdWrite' = FifoWriteLocation
                    /\ FifoWriteLocation' = FifoWriteLocation
                    /\ chunks' = chunks + 1
                    /\ xferCount' = xferCount
      ]_vars

\* C16 as stated: the wait before a chunk has the size of that chunk as its
\* threshold, so the upload polls again only when the free space it found is
\* below the size of the chunk it is about to write.
C16_WaitsForChunkSize ==
    (inUpload /\ pc = "fs_rd" /\ polls > 0 /\ getfreespace < room)
    => getfreespace < ChunkSize(Remaining)

\* C16 witness: the final 4-byte chunk of an upload of 3585 bytes has been
\* written after the wait found at least 512 bytes free.
C16_Witness ==
    /\ pc = "up_pub"
    /\ count = <<0, 3585>>
    /\ chunks = 7 /\ xferLen = 4
    /\ getfreespace >= 512
    /\ xferAddr = RAM_CMD + cursorAtEntry - 512

\* C17: CoProWrCmdBuf never waits for the FIFO to drain: it polls
\* REG_CMD_READ only inside Wait4CoProFIFO, returns with the publish of its
\* last chunk, possibly while REG_CMD_READ still differs from REG_CMD_WRITE,
\* and on return REG_CMD_WRITE equals FifoWriteLocation.
C17_UploadReturnsAfterLastPublish ==
    [][ /\ inUpload => pc \in {"fs_rd", "fs_wr", "up_xfer", "up_pub", "idle"}
        /\ (pc = "up_pub" /\ pc' # pc)
           => (pc' = "idle" <=> Remaining' <= 0)
        /\ (inUpload /\ pc' = "idle" /\ pc # "idle")
           => /\ pc = "up_pub"
              /\ done' = "CoProWrCmdBuf"
              /\ regCmdWrite' = FifoWriteLocation'
        /\ (pc = "idle" /\ done = "CoProWrCmdBuf")
           => regCmdWrite = FifoWriteLocation
      ]_vars

\* C17 witness: CoProWrCmdBuf has returned and the device has not consumed
\* the last chunk yet.
C17_Witness ==
    /\ pc = "idle" /\ done = "CoProWrCmdBuf"
    /\ regCmdRead # regCmdWrite
    /\ unconsumed >= xferLen /\ xferLen > 0

\* C18: an upload of any count, started with FifoWriteLocation equal to
\* REG_CMD_WRITE against a device that does not fault, returns after exactly
\* max(1, ceil(count / 512)) iterations of its chunk loop.
C18_UploadChunkCount ==
    (pc = "idle" /\ done = "CoProWrCmdBuf" /\ upClean)
    => chunks = ExpectedChunks(count)

\* C19: Wait4CoProFIFOEmpty, once called, eventually returns to its caller,
\* the device being fair and faulting finitely often; after a recovery the
\* loop polls again and exits when the value polled equals REG_CMD_WRITE.
C19_DrainWaitReturns ==
    (pc = "we_poll" /\ polls = 0)
    ~> (pc = "idle" /\ done = "Wait4CoProFIFOEmpty" /\ ReadReg = regCmdWrite)

\* C19 witness: the wait returned after a fault and its recovery, on the
\* second poll, with commands published before the call.
C19_Witness ==
    /\ pc = "idle" /\ done = "Wait4CoProFIFOEmpty"
    /\ faults > 0 /\ wroteReg /\ Len(rcLog) = 7
    /\ polls = 2
    /\ ReadReg = 0 /\ regCmdWrite = 0
    /\ FifoWriteLocation = 3588

\* C20: Wait4CoProFIFO(n) returns exactly when a poll of CoProFIFO_FreeSpace
\* yields a value >= n, and Wait4CoProFIFOEmpty exits only through its test
\* of cursor equality; neither loop has a poll limit, so with a device whose
\* read cursor never changes, a wait that finds the free space below n
\* (respectively the read cursor different from REG_CMD_WRITE) never returns.
C20_WaitsHaveNoTimeout ==
    /\ [][ (fsMode = "wait" /\ pc = "fs_wr")
           => (pc' = "idle" <=> getfreespace' >= room) ]_vars
    /\ [][ pc = "we_cmp"
           => (pc' = "idle" <=> ReadReg = regCmdWrite) ]_vars
    /\ []((fsMode = "wait" /\ pc \in {"fs_rd", "fs_wr"}
           /\ FreeSpaceValue(regCmdRead, regCmdWrite) < room)
          => [](pc # "idle"))
    /\ []((pc \in {"we_poll", "we_cmp"} /\ regCmdRead # regCmdWrite)
          => [](pc # "idle"))

\* C20 witness: Wait4CoProFIFO(4) is about to poll again after PollCap polls
\* that found the FIFO full.
C20_Witness ==
    /\ fsMode = "wait" /\ pc = "fs_rd"
    /\ polls = PollCap
    /\ room = 4 /\ getfreespace = 0

(***************************************************************************)
(* The transport at work: the device's memory behind it, the operations    *)
(* run one transport call at a time, a transport call that fails.          *)
(***************************************************************************)
\* The address the device decodes from the first three bytes.
WireAddr(w) == (w[1] % 64) * 65536 + w[2] * 256 + w[3]

\* The device stores each payload byte of a write transaction (bit 7 of the
\* first byte set) at the next address.
DeviceStore(m, w) ==
    IF Len(w) > 3 /\ w[1] >= 128 /\ (WireAddr(w) + Len(w) - 4) \in BusCells
    THEN [m EXCEPT ![WireAddr(w) + Len(w) - 4] = w[Len(w)]]
    ELSE m

\* The device answers a read transaction (top two bits of the first byte 00)
\* with the bytes from the address on.
DeviceLoad(m, w, n) ==
    [i \in 1 .. n |->
        IF Len(w) = 3 /\ w[1] < 64 /\ (WireAddr(w) + i - 1) \in BusCells
        THEN m[WireAddr(w) + i - 1]
        ELSE 0]

\* What a register read returns from its buf.
ReadResult(bits, buf) ==
    CASE bits = 32 -> Data32(buf)
      [] bits = 16 -> Data16(buf)
      [] bits = 8 -> Data8(buf)

\* An operation begins.
BusCall ==
    /\ busProg = <<>> /\ busOps < MaxBusOps
    /\ \E o \in BusOperations :
         /\ busCur' = [name |-> o.name, addr |-> o.addr, val |-> o.val]
         /\ busProg' = o.prog
    /\ busPrev' = [name |-> busCur.name, addr |-> busCur.addr,
                    val |-> busCur.val, ok |-> ~busFailed]
    /\ busLog' = <<>> /\ rdBuf' = <<>>
    /\ busOps' = busOps + 1
    /\ busFailed' = FALSE /\ accessesAfterFail' = 0
    /\ UNCHANGED <<spiOpen, spiNested, wire, mem, busRet, fifoVars>>

\* The next transport call of the operation succeeds.
BusStep ==
    /\ busProg # <<>>
    /\ LET p == Head(busProg) IN
         /\ busProg' = Tail(busProg)
         /\ busLog' = Append(busLog, p.op)
         /\ spiOpen' = CASE p.op = "en" -> spiOpen + 1
                         [] p.op = "dis" -> spiOpen - 1
                         [] OTHER -> spiOpen
         /\ spiNested' = (spiNested \/ (p.op = "en" /\ spiOpen > 0))
         /\ wire' = CASE p.op = "en" -> <<>>
                      [] p.op = "w" -> Append(wire, p.b)
                      [] OTHER -> wire
         /\ mem' = IF p.op = "w" THEN DeviceStore(mem, wire') ELSE mem
         /\ rdBuf' = IF p.op \in {"r", "r0"} THEN DeviceLoad(mem, wire, p.b)
                     ELSE rdBuf
         /\ busRet' = IF p.op = "ret" THEN ReadResult(p.b, rdBuf) ELSE busRet
         /\ accessesAfterFail' = IF p.op = "en" /\ busFailed
                                 THEN accessesAfterFail + 1
                                 ELSE accessesAfterFail
    /\ UNCHANGED <<busCur, busPrev, busOps, busFailed, fifoVars>>

\* The next transport call, a transfer of bytes, fails: nothing is
\* transferred.  The register functions are void or return the data, test no
\* result of a transport call and go on; a buf that was not filled keeps what
\* it held, which for rd32, rd8 and rdN is indeterminate.
BusFail ==
    /\ busProg # <<>> /\ ~busFailed
    /\ Head(busProg).op \in {"w", "r", "r0"}
    /\ LET p == Head(busProg) IN
         /\ busProg' = Tail(busProg)
         /\ busLog' = Append(busLog, p.op)
         /\ rdBuf' \in CASE p.op = "r" -> {[i \in 1 .. p.b |-> x] : x \in StaleBytes}
                         [] p.op = "r0" -> {[i \in 1 .. p.b |-> 0]}
                         [] OTHER -> {rdBuf}
    /\ busFailed' = TRUE
    /\ UNCHANGED <<spiOpen, spiNested, wire, mem, busRet, busCur, busPrev,
                   busOps, accessesAfterFail, fifoVars>>

InitBus ==
    /\ FifoWriteLocation = 0
    /\ regCmdRead = 0 /\ regCmdWrite = 0
    /\ regCmdDl = 0 /\ regCpuReset = 0
    /\ regPatchPtr \in PatchValues
    /\ pc = "idle"
    /\ LocalsInit /\ GhostInit

NextBus ==
    \/ BusCall
    \/ BusStep
    \/ BusFail

SpecBus == InitBus /\ [][NextBus]_vars

\* The transport calls of a register write and of a register read of n bytes.
WriteShape(n) == <<"en", "w", "w", "w">> \o [i \in 1 .. n |-> "w"] \o <<"dis">>

ReadShape(kind) == <<"en", "w", "w", "w", kind, "dis">>

\* The transport calls the operation has completed, without the return.
BusCalls == SelectSeq(busLog, LAMBDA o : o # "ret")

\* An operation has run to its end.
BusDone == busProg = <<>> /\ busCur.name # "none"

\* The last "en" of the log is its first call or follows a "dis".
ClosedBeforeOpen(log) ==
    \A i \in 1 .. Len(log) :
        (log[i] = "en" /\ i > 1) =>
            \E j \in 1 .. i - 1 :
                /\ log[j] = "dis"
                /\ \A l \in j + 1 .. i - 1 : log[l] \notin {"en", "dis"}

\* C21: at most one transaction is in flight: no HAL_SPI_Enable is called
\* with a transaction open, every operation returns with its transactions
\* closed, and the publishing write of an upload chunk opens its transaction
\* after the streaming transaction was closed.
C21_OneTransactionInFlight ==
    /\ spiOpen \in {0, 1}
    /\ ~spiNested
    /\ ClosedBeforeOpen(busLog)
    /\ BusDone => spiOpen = 0
    /\ (busCur.name = "CoProWrCmdBuf" /\ spiOpen = 1 /\ Len(wire) >= 3
        /\ WireAddr(wire) = BusReg(1) /\ wire[1] >= 128)
         => /\ Len(SelectSeq(busLog, LAMBDA o : o = "en")) = 4
            /\ Len(SelectSeq(busLog, LAMBDA o : o = "dis")) = 3

\* An upload chunk has streamed its bytes into RAM_CMD and published.
C21_Witness ==
    /\ busCur.name = "CoProWrCmdBuf" /\ BusDone /\ ~busFailed
    /\ spiOpen = 0
    /\ mem[RAM_CMD + 3] = 4
    /\ mem[BusReg(1)] = FT_CMD_SIZE

\* C22: once a transport call of an operation has failed, the operation
\* begins no further register access.
C22_FailureAbortsOperation == busFailed => accessesAfterFail = 0

\* Register-layer operation names, by direction.
RegisterWrites == {"wr32", "wr16", "wr8"}

RegisterReads == {"rd32", "rd16", "rd8", "rdN"}

PayloadBytes(name) ==
    CASE name = "wr32" -> 4 [] name = "wr16" -> 2 [] name = "wr8" -> 1

\* C28: a register-layer operation is one transaction: open, three address
\* bytes, payload, close.  A read's first byte is address bits 21..16 with
\* the top two bits 00, a write's has bit 7 set; bits 15..8 and 7..0 follow;
\* payloads go least significant byte first, reads are assembled the same
\* way, and rd32 after wr32 of the same address returns the value written.
C28_TransactionShape ==
    /\ (BusDone /\ busCur.name \in RegisterWrites) =>
          BusCalls = WriteShape(PayloadBytes(busCur.name))
    /\ (BusDone /\ busCur.name \in RegisterReads) =>
          BusCalls \in {ReadShape("r"), ReadShape("r0")}
    /\ (busCur.name \in RegisterWrites \cup RegisterReads
        /\ ~busFailed /\ Len(wire) >= 3 /\ busLog # <<>>) =>
          /\ wire[1] % 64 = (busCur.addr \div 65536) % 64
          /\ wire[1] \div 64 = (IF busCur.name \in RegisterReads THEN 0 ELSE 2)
          /\ wire[2] = (busCur.addr \div 256) % 256
          /\ wire[3] = busCur.addr % 256
    /\ (BusDone /\ ~busFailed /\ busCur.name = "wr32") =>
          /\ wire[4] = busCur.val[2] % 256
          /\ wire[5] = busCur.val[2] \div 256
          /\ wire[6] = busCur.val[1] % 256
          /\ wire[7] = busCur.val[1] \div 256
    /\ (BusDone /\ ~busFailed /\ busCur.name = "wr16") =>
          /\ wire[4] = busCur.val[2] % 256
          /\ wire[5] = busCur.val[2] \div 256
    /\ (BusDone /\ ~busFailed /\ busCur.name = "rd32") =>
          /\ busRet[2] = rdBuf[1] + 256 * rdBuf[2]
          /\ busRet[1] = rdBuf[3] + 256 * rdBuf[4]
    /\ (BusDone /\ ~busFailed /\ busCur.name = "rd16") =>
          busRet = <<0, rdBuf[1] + 256 * rdBuf[2]>>
    /\ (BusDone /\ ~busFailed /\ busCur.name = "rd32"
        /\ busPrev.name = "wr32" /\ busPrev.ok
        /\ busPrev.addr = busCur.addr) =>
          busRet = busPrev.val

\* wr32 then rd32 of the same register returned 0x12345678.
C28_Witness ==
    /\ BusDone /\ ~busFailed
    /\ busCur.name = "rd32" /\ busPrev.name = "wr32" /\ busPrev.ok
    /\ busCur.addr = BusReg(1) /\ busPrev.addr = BusReg(1)
    /\ busRet = <<4660, 22136>>
    /\ rdBuf = <<120, 86, 52, 18>>

(***************************************************************************)
(* Calibrate_Fixed and calculate_touch_matrix at work.                     *)
(***************************************************************************)
\* The FIFO engine's state but the program counter.
engineVars == <<FifoWriteLocation, devVars, fsVars, weVars, upVars, ghostVars,
                xferVars>>

\* Arguments of Calibrate_Fixed: width, height, touch_x_max, touch_y_max; the
\* first is the call EVE_Init makes for an 800 x 480 display.
FixedArgs == {<<800, 480, 16384, 16384>>, <<480, 272, 1023, 1023>>,
              <<1024, 600, 32767, 4095>>, <<800, 480, 0, 16384>>,
              <<800, 480, 16384, 0>>}

\* The call EVE_Init makes.
InitArgs == {<<800, 480, 16384, 16384>>}

\* A calibration begins: its locals start afresh.
CalEnter(op, args, dX, dY, tX, tY) ==
    /\ calOp' = op /\ calArgs' = args
    /\ displayX' = dX /\ displayY' = dY /\ touchX' = tX /\ touchY' = tY
    /\ detK' = 0 /\ TransMatrix' = <<>> /\ divByZero' = FALSE
    /\ calCount' = 0 /\ calWrites' = <<>>
    /\ calCursor' = FifoWriteLocation

\* Calibrate_Fixed(width_pixels, height_pixels, touch_x_max, touch_y_max) up
\* to its call of calculate_touch_matrix.
Call_Calibrate_Fixed(argset) ==
    /\ Enter("call", FALSE, 0, 0, FALSE, FALSE)
    /\ \E a \in argset :
         CalEnter("Calibrate_Fixed", a,
                  <<0, a[1], a[1]>>, <<0, 0, a[2]>>,
                  <<0, a[3], a[3]>>, <<0, 0, a[4]>>)
    /\ xferAddr' = 0 /\ xferLen' = 0 /\ xferCount' = 0
    /\ buffOff' = 0 /\ chunks' = 0 /\ count' = <<0, 0>>
    /\ cursorAtEntry' = 0
    /\ pc' = "calc"
    /\ done' = "none"
    /\ UNCHANGED <<FifoWriteLocation, devVars, faults, wordSteps, pendingFault,
                   enq, unconsumed, busVars, textVars, calRuns, pressed, pointCount,
                   calLog, calRet>>

Call_Calibrate_Fixed_Any == Call_Calibrate_Fixed(FixedArgs)

Call_Calibrate_Fixed_Init == Call_Calibrate_Fixed(InitArgs)

\* calculate_touch_matrix called on points of its own.
Call_calculate_touch_matrix ==
    /\ pc = "idle" /\ calOp = "none"
    /\ \E dX \in Triples(DisplayValues), dY \in Triples(DisplayValues),
          tX \in Triples(CoordValues), tY \in Triples(CoordValues) :
         CalEnter("calculate_touch_matrix", <<dX, dY, tX, tY>>, dX, dY, tX, tY)
    /\ pc' = "calc"
    /\ UNCHANGED <<engineVars, busVars, textVars, calRuns, pressed, pointCount, calLog,
                   calRet>>

\* A calculate_touch_matrix that returns early when k = 0.
MatrixOutcomes_Checked(dX, dY, tX, tY) ==
    IF Determinant(tX, tY) # 0
    THEN {<<"cal_wr", calculate_touch_matrix(dX, dY, tX, tY), FALSE>>}
    ELSE {<<"cal_wr", <<0, 0, 0, 0, 0, 0>>, FALSE>>}

\* What calculate_touch_matrix leaves: where the program goes on, the
\* coefficients, whether it divided by zero.  There is no test of k: with
\* k = 0 the first division is undefined, and the program either stops there
\* or goes on with coefficients that hold anything.
MatrixOutcomes(dX, dY, tX, tY) ==
    IF Determinant(tX, tY) # 0
    THEN {<<"cal_wr", calculate_touch_matrix(dX, dY, tX, tY), FALSE>>}
    ELSE {<<"trap", <<>>, TRUE>>}
         \cup {<<"cal_wr", m, TRUE>> : m \in IndeterminateMatrices}

\* The body of calculate_touch_matrix.
CAL_Matrix ==
    /\ pc = "calc"
    /\ detK' = Determinant(touchX, touchY)
    /\ \E o \in MatrixOutcomes(displayX, displayY, touchX, touchY) :
         /\ pc' = o[1]
         /\ TransMatrix' = o[2]
         /\ divByZero' = o[3]
    /\ UNCHANGED <<engineVars, busVars, textVars, displayX, displayY, touchX, touchY,
                   calOp, calArgs, calCount, calWrites, calCursor, calRuns,
                   pressed, pointCount, calLog,
                   calRet>>

\* Offsets that pack the coefficients one byte apart.
TransformOffset_Packed(i) == i

\* count * 4: the offset of coefficient i from REG_TOUCH_TRANSFORM_A.
TransformOffset(i) == i * FT_CMD_SIZE

\* A value written that depends on the host's cursor.
WrittenCoefficient_PlusCursor(matrix, i) == matrix[i + 1] + FifoWriteLocation

\* TransMatrix[count]
WrittenCoefficient(matrix, i) == matrix[i + 1]

\* The number of coefficients.
MatrixSize == 6

\* do { wr32(REG_TOUCH_TRANSFORM_A + RAM_REG + (count * 4), TransMatrix[count]);
\* count++; } while (count < 6); one iteration.
CAL_Write ==
    /\ pc = "cal_wr"
    /\ calOp \in {"Calibrate_Fixed", "Calibrate_Manual"}
    /\ calWrites' = Append(calWrites, <<TransformOffset(calCount),
                                        WrittenCoefficient(TransMatrix, calCount)>>)
    /\ calCount' = calCount + 1
    /\ IF calCount' < MatrixSize
       THEN /\ pc' = pc /\ done' = done
            /\ calRuns' = calRuns
       ELSE /\ pc' = "idle" /\ done' = calOp
            /\ calRuns' = calRuns \cup {[op |-> calOp, args |-> calArgs,
                                         before |-> calCursor,
                                         after |-> FifoWriteLocation,
                                         writes |-> calWrites']}
    /\ UNCHANGED <<FifoWriteLocation, devVars, fsVars, weVars, upVars, xferVars,
                   calls, faults, wordSteps, polls, wroteReg, recCount,
                   pendingFault, rcLog, cBefore, patchBefore, weDrainedAtCall,
                   enq, upClean, unconsumed, overwrote>>
    /\ UNCHANGED <<busVars, textVars, displayX, displayY, touchX, touchY, detK,
                   TransMatrix, divByZero, calOp, calArgs, calCursor, pressed,
                   pointCount, calLog, calRet>>

\* calculate_touch_matrix on enumerated points.
NextMatrix ==
    \/ Call_calculate_touch_matrix
    \/ CAL_Matrix

SpecMatrix == InitBus /\ [][NextMatrix]_vars

\* Calibrate_Fixed among enqueues, publishes and the device at work.
NextCal ==
    \/ Call_Calibrate_Fixed_Any
    \/ CAL_Matrix
    \/ CAL_Write
    \/ Send_CMD
    \/ UpdateFIFO
    \/ DeviceConsume

SpecCal == InitUpload /\ [][NextCal]_vars

Abs(x) == IF x < 0 THEN 0 - x ELSE x

\* Touch point i mapped through the coefficients.
MappedX(i) ==
    ApplyTransform(TransMatrix[1], TransMatrix[2], TransMatrix[3],
                   touchX[i], touchY[i])

MappedY(i) ==
    ApplyTransform(TransMatrix[4], TransMatrix[5], TransMatrix[6],
                   touchX[i], touchY[i])

\* C23: for non-collinear touch points and coordinates in 0 .. 2000 the
\* coefficients map each touch point to within one pixel of its display
\* point.
C23_ReproducesDisplayPoints ==
    (calOp = "calculate_touch_matrix" /\ pc = "cal_wr" /\ detK # 0) =>
        \A i \in 1 .. 3 :
            /\ Abs(MappedX(i) - displayX[i]) <= 1
            /\ Abs(MappedY(i) - displayY[i]) <= 1

FixedWrites(a) ==
    <<<<0, (a[1] * 65536) \div a[3]>>, <<4, 0>>, <<8, 0>>, <<12, 0>>,
      <<16, (a[2] * 65536) \div a[4]>>, <<20, 0>>>>

\* C25: Calibrate_Fixed(w, h, tx, ty) with tx, ty > 0 uses display points
\* (0,0), (w,0), (w,h) and touch points (0,0), (tx,0), (tx,ty) and makes
\* exactly six writes, coefficient i to offset 4 * i in ascending order, of
\* floor(w * 65536 / tx), 0, 0, 0, floor(h * 65536 / ty), 0.
C25_FixedCalibrationWrites ==
    (calOp = "Calibrate_Fixed" /\ calArgs[3] > 0 /\ calArgs[4] > 0) =>
        /\ displayX = <<0, calArgs[1], calArgs[1]>>
        /\ displayY = <<0, 0, calArgs[2]>>
        /\ touchX = <<0, calArgs[3], calArgs[3]>>
        /\ touchY = <<0, 0, calArgs[4]>>
        /\ Len(calWrites) <= 6
        /\ calWrites = SubSeq(FixedWrites(calArgs), 1, Len(calWrites))
        /\ (pc \notin {"calc", "cal_wr"}) => Len(calWrites) = 6
        /\ calArgs = <<800, 480, 16384, 16384>> /\ Len(calWrites) = 6 =>
             /\ calWrites[1][2] = 3200
             /\ calWrites[5][2] = 1920

\* Calibrate_Fixed(800, 480, 16384, 16384) has returned.
C25_Witness ==
    /\ calOp = "Calibrate_Fixed" /\ done = "Calibrate_Fixed"
    /\ calArgs = <<800, 480, 16384, 16384>>
    /\ calWrites = <<<<0, 3200>>, <<4, 0>>, <<8, 0>>, <<12, 0>>,
                     <<16, 1920>>, <<20, 0>>>>

\* C26: calculate_touch_matrix has no test of k.  With k = 0 the division is
\* reached; nothing is returned to the caller and no write is left out: the
\* program stops in the division or goes on to all six writes.
C26_NoDeterminantCheck ==
    (calOp = "Calibrate_Fixed" /\ (calArgs[3] = 0 \/ calArgs[4] = 0)
     /\ pc # "calc") =>
        /\ detK = 0
        /\ divByZero
        /\ \/ pc = "trap" /\ calWrites = <<>>
           \/ pc = "cal_wr" /\ Len(calWrites) < 6
           \/ pc \notin {"trap", "cal_wr"} /\ Len(calWrites) = 6

\* Calibrate_Fixed with touch_x_max = 0 has divided by zero.
C26_Witness ==
    /\ calOp = "Calibrate_Fixed" /\ calArgs[3] = 0
    /\ detK = 0 /\ divByZero /\ pc = "trap"

(***************************************************************************)
(* Calibrate_Manual.                                                       *)
(***************************************************************************)
\* Arguments of Calibrate_Manual: Width, Height, V_Offset, H_Offset.
ManualArgs == {<<800, 480, 0, 0>>, <<480, 272, 10, 20>>}

\* (uint32_t)(n * 0.15) and (uint32_t)(n * 0.85) for the sizes above.
Percent15(n) == (n * 15) \div 100

Percent85(n) == (n * 85) \div 100

\* Values rd32(REG_TOUCH_DIRECT_XY) returns, as <<high half, low half>>: no
\* touch (bit 31 set), and samples, one of them with bits above the ten
\* coordinate bits.
TouchReads == {<<65535, 65535>>, <<100, 200>>, <<900, 200>>, <<17284, 800>>}

\* A poll that takes the no-touch value for a sample.
TouchValid_Always(v) == v[1] >= 0

\* !(touchValue & 0x80000000)
TouchValid(v) == v[1] < 32768

\* (touchValue >> 16) & 0x03FF and touchValue & 0x03FF
SampleX(v) == v[1] % 1024

SampleY(v) == v[2] % 1024

\* Words Cmd_Text enqueues for a string of len characters.
TextWords(len) == 3 + (len \div 4) + 1

\* Words of one prompt frame: nine commands, "Calibrating", "Please tap the
\* dots", the number of the point, DISPLAY and CMD_SWAP.
FrameWords == 9 + TextWords(11) + TextWords(19) + TextWords(1) + 2

\* Calibrate_Manual(Width, Height, V_Offset, H_Offset) up to its loop, as
\* the first call the application makes.
Call_Calibrate_Manual ==
    /\ calls = 0
    /\ Enter("call", FALSE, 0, 0, FALSE, FALSE)
    /\ \E a \in ManualArgs :
         CalEnter("Calibrate_Manual", a,
                  <<Percent15(a[1]) + a[4], Percent85(a[1]) + a[4],
                    (a[1] \div 2) + a[4]>>,
                  <<Percent15(a[2]) + a[3], (a[2] \div 2) + a[3],
                    Percent85(a[2]) + a[3]>>,
                  <<0, 0, 0>>, <<0, 0, 0>>)
    /\ pressed' = 0 /\ pointCount' = 0 /\ calLog' = <<>> /\ calRet' = "none"
    /\ xferAddr' = 0 /\ xferLen' = 0 /\ xferCount' = 0
    /\ buffOff' = 0 /\ chunks' = 0 /\ count' = <<0, 0>>
    /\ cursorAtEntry' = 0
    /\ pc' = "cm_frame"
    /\ done' = "none"
    /\ UNCHANGED <<FifoWriteLocation, devVars, faults, wordSteps, pendingFault,
                   enq, unconsumed, busVars, textVars, calRuns>>

\* while (count < 3): one Send_CMD of the prompt frame, made by
\* Calibrate_Manual or by Cmd_Text; after the last one the frame is complete.
CM_Frame ==
    /\ pc = "cm_frame"
    /\ FifoWriteLocation' = CursorAfterCmd(FifoWriteLocation)
    /\ enq' = enq + FT_CMD_SIZE
    /\ xferAddr' = FifoWriteLocation + RAM_CMD
    /\ xferLen' = FT_CMD_SIZE
    /\ xferCount' = xferCount + 1
    /\ IF xferCount' = FrameWords * (pointCount + 1)
       THEN /\ calLog' = Append(calLog, <<"frame", pointCount>>)
            /\ pc' = "cm_pub"
       ELSE UNCHANGED <<calLog, pc>>
    /\ UNCHANGED <<devVars, fsVars, weVars, upVars, buffOff, chunks, count,
                   cursorAtEntry, done, calls, faults, wordSteps, polls,
                   wroteReg, recCount, pendingFault, rcLog, cBefore,
                   patchBefore, weDrainedAtCall, upClean, unconsumed, overwrote,
                   busVars, textVars, displayX, displayY, touchX, touchY, detK,
                   TransMatrix, divByZero, calOp, calArgs, calCount, calWrites,
                   calCursor, calRuns, pressed, pointCount, calRet>>

\* UpdateFIFO(); then Wait4CoProFIFOEmpty() is entered.
CM_Publish ==
    /\ pc = "cm_pub"
    /\ unconsumed' = unconsumed + ((PublishedValue - regCmdWrite) % FT_CMD_FIFO_SIZE)
    /\ DevWrite("REG_CMD_WRITE", PublishedValue)
    /\ enq' = 0
    /\ calLog' = Append(calLog, <<"publish", pointCount>>)
    /\ ReadReg' = 0 /\ errLen' = 0 /\ errRead' = 0
    /\ Patch_Add' = 0 /\ rcIdx' = 1 /\ rcRet' = "init"
    /\ polls' = 0 /\ recCount' = 0
    /\ rcLog' = <<>> /\ cBefore' = 0 /\ patchBefore' = 0
    /\ done' = "none"
    /\ calRet' = "cm_touch"
    /\ pc' = "we_poll"
    /\ UNCHANGED <<FifoWriteLocation, fsVars, upVars, xferVars, calls, faults,
                   wordSteps, wroteReg, pendingFault, weDrainedAtCall, upClean,
                   overwrote, busVars, textVars, displayX, displayY, touchX, touchY, detK,
                   TransMatrix, divByZero, calOp, calArgs, calCount, calWrites,
                   calCursor, calRuns, pressed, pointCount>>

\* Wait4CoProFIFOEmpty has returned to Calibrate_Manual; HAL_Delay(300).
CM_Resume ==
    /\ pc = "idle" /\ calRet = "cm_touch"
    /\ calLog' = Append(calLog, <<"drained", pointCount>>)
    /\ calRet' = "none"
    /\ polls' = 0
    /\ pc' = "cm_touch"
    /\ UNCHANGED <<FifoWriteLocation, devVars, fsVars, weVars, upVars, xferVars,
                   done, calls, faults, wordSteps, wroteReg, recCount,
                   pendingFault, rcLog, cBefore, patchBefore, weDrainedAtCall,
                   enq, upClean, unconsumed, overwrote,
                   busVars, textVars, displayX, displayY, touchX, touchY, detK,
                   TransMatrix, divByZero, calOp, calArgs, calCount, calWrites,
                   calCursor, calRuns, pressed, pointCount>>

\* while (pressed == count) { touchValue = rd32(REG_TOUCH_DIRECT_XY); ... }
\* one read; after a sample pressed = count and the loop over the points
\* goes on or ends with the call of calculate_touch_matrix.
CM_Touch ==
    /\ pc = "cm_touch"
    /\ pressed = pointCount
    /\ polls' = Min(polls + 1, PollCap)
    /\ \E touchValue \in TouchReads :
         IF TouchValid(touchValue)
         THEN /\ touchX' = [touchX EXCEPT ![pointCount + 1] = SampleX(touchValue)]
              /\ touchY' = [touchY EXCEPT ![pointCount + 1] = SampleY(touchValue)]
              /\ pointCount' = pointCount + 1
              /\ pressed' = pointCount'
              /\ calLog' = Append(calLog, <<"sample", pointCount>>)
              /\ pc' = IF pointCount' < 3 THEN "cm_frame" ELSE "calc"
         ELSE UNCHANGED <<touchX, touchY, pointCount, pressed, calLog, pc>>
    /\ UNCHANGED <<FifoWriteLocation, devVars, fsVars, weVars, upVars, xferVars,
                   done, calls, faults, wordSteps, wroteReg, recCount,
                   pendingFault, rcLog, cBefore, patchBefore, weDrainedAtCall,
                   enq, upClean, unconsumed, overwrote,
                   busVars, textVars, displayX, displayY, detK, TransMatrix, divByZero,
                   calOp, calArgs, calCount, calWrites, calCursor, calRuns,
                   calRet>>

NextManual ==
    \/ Call_Calibrate_Manual
    \/ CM_Frame
    \/ CM_Publish
    \/ WE_Poll
    \/ WE_Compare
    \/ CM_Resume
    \/ CM_Touch
    \/ CAL_Matrix
    \/ CAL_Write
    \/ DeviceConsume

SpecManual == InitUpload /\ [][NextManual]_vars

\* The steps of Calibrate_Manual for point p.
PointLog(p) == <<<<"frame", p>>, <<"publish", p>>, <<"drained", p>>, <<"sample", p>>>>

ManualLog == PointLog(0) \o PointLog(1) \o PointLog(2)

\* C27: Calibrate_Manual takes the points 0, 1, 2 in order, and for each the
\* prompt frame is enqueued, published, Wait4CoProFIFOEmpty returns, and the
\* raw-touch register is polled until a read has bit 31 clear; one sample is
\* recorded per point, a read with bit 31 set changes nothing, and
\* calculate_touch_matrix and the six writes come after the third sample.
C27_ManualCalibrationOrder ==
    calOp = "Calibrate_Manual" =>
        /\ Len(calLog) <= Len(ManualLog)
        /\ calLog = SubSeq(ManualLog, 1, Len(calLog))
        /\ pressed = pointCount
        /\ pointCount = Len(SelectSeq(calLog, LAMBDA e : e[1] = "sample"))
        /\ \A i \in 1 .. pointCount :
               \E v \in TouchReads :
                   /\ v[1] < 32768
                   /\ touchX[i] = v[1] % 1024 /\ touchY[i] = v[2] % 1024
        /\ \A i \in pointCount + 1 .. 3 : touchX[i] = 0 /\ touchY[i] = 0
        /\ (pc = "cm_frame") =>
               /\ Len(calLog) = 4 * pointCount /\ pointCount < 3
               /\ xferCount >= FrameWords * pointCount
               /\ xferCount < FrameWords * (pointCount + 1)
        /\ (pc = "cm_pub") => calLog[Len(calLog)][1] = "frame"
        /\ (pc = "cm_touch") => calLog[Len(calLog)][1] = "drained"
        /\ (pc \in {"calc", "cal_wr", "trap"} \/ TransMatrix # <<>>
            \/ calWrites # <<>>) => calLog = ManualLog
        /\ (pc = "calc") => (TransMatrix = <<>> /\ calWrites = <<>>)

\* The third sample came after reads with bit 31 set, and the six writes
\* were made.
C27_Witness ==
    /\ calOp = "Calibrate_Manual" /\ done = "Calibrate_Manual"
    /\ calLog = ManualLog
    /\ polls = PollCap
    /\ touchX = <<100, 900, 900>> /\ touchY = <<200, 200, 800>>
    /\ Len(calWrites) = 6

\* C29: on the sentinel the error-report loop of Wait4CoProFIFOEmpty reads
\* byte by byte from offset 0 up to and including the first zero byte, 128
\* bytes at most and one at least, and is over before the first register
\* access of the recovery.
C29_DiagnosticDrainBounded ==
    /\ (pc = "rc" /\ rcRet = "we") =>
          /\ errRead >= 1 /\ errRead <= ERR_REPORT_MAX
          /\ errRead = Min(errLen + 1, ERR_REPORT_MAX)
          /\ \A Offset \in 0 .. errRead - 2 : ErrReport(errLen)[Offset] # 0
          /\ errRead < ERR_REPORT_MAX => ErrReport(errLen)[errRead - 1] = 0
          /\ ReadReg = FAULT_SENTINEL
    /\ (pc = "we_diag") => (ReadReg = FAULT_SENTINEL /\ rcIdx = 1)
    /\ (rcRet = "we" /\ rcLog # <<>>) => errRead >= 1

\* A report with no zero byte was read to its 128th byte and the recovery
\* has made no access yet.
C29_Witness ==
    /\ pc = "rc" /\ rcRet = "we" /\ rcLog = <<>> /\ rcIdx = 1
    /\ errLen = ERR_REPORT_MAX /\ errRead = ERR_REPORT_MAX

\* The whole engine with the calibration EVE_Init performs.
NextFrame ==
    \/ Send_CMD
    \/ UpdateFIFO
    \/ Call_FreeSpace
    \/ Call_Wait4CoProFIFO
    \/ FS_ReadRd
    \/ FS_ReadWr
    \/ Call_Wait4CoProFIFOEmpty
    \/ WE_Poll
    \/ WE_Diag
    \/ RC_Step
    \/ WE_Compare
    \/ Call_CoProWrCmdBuf
    \/ UP_Transfer
    \/ UP_Publish
    \/ Eve_Reset
    \/ Init_FaultCheck
    \/ DeviceConsume
    \/ DeviceFault
    \/ Call_Calibrate_Fixed_Init
    \/ CAL_Matrix
    \/ CAL_Write

SpecFrame == Init /\ [][NextFrame]_vars

\* A step that enters an API function.
EntersCall == calls' # calls

\* C30: FifoWriteLocation changes only in Send_CMD (by 4, wrapped), in an
\* upload chunk (by the chunk size, wrapped) and in Eve_Reset (to 0, before
\* EVE_Init touches the FIFO); UpdateFIFO, CoProFIFO_FreeSpace,
\* Wait4CoProFIFO, Wait4CoProFIFOEmpty with or without the recovery and
\* Calibrate_Fixed leave it as it is.
C30_CursorFrame ==
    [][ /\ FifoWriteLocation' # FifoWriteLocation =>
             \/ /\ EntersCall /\ done' = "Send_CMD"
                /\ FifoWriteLocation' =
                       (FifoWriteLocation + FT_CMD_SIZE) % FT_CMD_FIFO_SIZE
             \/ /\ pc = "up_xfer" /\ pc' = "up_pub"
                /\ FifoWriteLocation' =
                       (FifoWriteLocation + TransferSize') % FT_CMD_FIFO_SIZE
             \/ /\ EntersCall /\ pc' = "init"
                /\ FifoWriteLocation' = 0
        /\ (EntersCall /\ done' = "Send_CMD") =>
               FifoWriteLocation' =
                   (FifoWriteLocation + FT_CMD_SIZE) % FT_CMD_FIFO_SIZE
        /\ (pc = "up_xfer" /\ pc' = "up_pub") =>
               FifoWriteLocation' =
                   (FifoWriteLocation + TransferSize') % FT_CMD_FIFO_SIZE
        /\ (EntersCall /\ pc' = "init") =>
               (FifoWriteLocation' = 0 /\ xferCount' = 0 /\ ~wroteReg')
        /\ (EntersCall /\ pc' # "init" /\ done' # "Send_CMD") =>
               FifoWriteLocation' = FifoWriteLocation
        /\ pc \in {"init", "fs_rd", "fs_wr", "we_poll", "we_diag", "rc",
                   "we_cmp", "up_pub", "calc", "cal_wr"} =>
               FifoWriteLocation' = FifoWriteLocation
        /\ (pc = "idle" /\ ~EntersCall) =>
               FifoWriteLocation' = FifoWriteLocation
      ]_vars

\* Calibrate_Fixed has run to its end with the cursor away from 0, in a run
\* in which the device has faulted.
C30_Witness ==
    /\ pc = "idle" /\ done = "Calibrate_Fixed"
    /\ FifoWriteLocation # 0
    /\ faults > 0
    /\ \E r \in calRuns : r.before = FifoWriteLocation /\ r.after = r.before

\* C31: CoProFIFO_FreeSpace reads REG_CMD_READ and REG_CMD_WRITE in two
\* transactions; when the device has moved its read cursor toward the write
\* cursor between or after the two reads, the value returned is at most
\* 4092 less the bytes occupied when the function returns.
C31_FreeSpaceConservative ==
    (/\ pc = "idle" /\ done = "CoProFIFO_FreeSpace"
     /\ faults = 0
     /\ regCmdRead # cmdBufferRd)
    => getfreespace <= (FT_CMD_FIFO_SIZE - FT_CMD_SIZE) - Occupied

(***************************************************************************)
(* Cmd_Text: three header words and length / 4 + 1 words of text, each by  *)
(* Send_CMD, with no look at the room in the FIFO.                         *)
(***************************************************************************)
\* The longest string: its words fill the FIFO window once.
MaxTextLen == 4080

\* strlen(str): the empty string, a short one, a long one.
TextLengths == {0, 1, MaxTextLen}

\* Cmd_Text(x, y, font, options, str): if (!length) return;
Call_Cmd_Text ==
    /\ Enter("call", FALSE, 0, 0, FALSE, FALSE)
    /\ \E len \in TextLengths :
         /\ length' = len
         /\ IF len = 0
            THEN pc' = "idle" /\ done' = "Cmd_Text"
            ELSE pc' = "ct_send" /\ done' = "none"
    /\ xferAddr' = 0 /\ xferLen' = 0 /\ xferCount' = 0
    /\ buffOff' = 0 /\ chunks' = 0 /\ count' = <<0, 0>>
    /\ cursorAtEntry' = 0
    /\ UNCHANGED <<FifoWriteLocation, devVars, faults, wordSteps, pendingFault,
                   enq, unconsumed, busVars, calVars>>

\* One Send_CMD of Cmd_Text; after the last word of the text it returns.
CT_Send ==
    /\ pc = "ct_send"
    /\ FifoWriteLocation' = CursorAfterCmd(FifoWriteLocation)
    /\ enq' = enq + FT_CMD_SIZE
    /\ xferAddr' = FifoWriteLocation + RAM_CMD
    /\ xferLen' = FT_CMD_SIZE
    /\ xferCount' = xferCount + 1
    /\ IF xferCount' = TextWords(length)
       THEN pc' = "idle" /\ done' = "Cmd_Text"
       ELSE UNCHANGED <<pc, done>>
    /\ UNCHANGED <<devVars, fsVars, weVars, upVars, buffOff, chunks, count,
                   cursorAtEntry, calls, faults, wordSteps, polls, wroteReg,
                   recCount, pendingFault, rcLog, cBefore, patchBefore,
                   weDrainedAtCall, upClean, unconsumed, overwrote, extVars>>

\* Enqueues and publishes against a device that drains when it likes.
NextText ==
    \/ Send_CMD
    \/ Call_Cmd_Text
    \/ CT_Send
    \/ UpdateFIFO
    \/ DeviceConsume

SpecText == InitUpload /\ [][NextText]_vars

\* The FIFO offset lies between the device's read cursor and the published
\* write cursor: a word published and not yet consumed.
InOccupied(offset) == ((offset - regCmdRead) % FT_CMD_FIFO_SIZE) < Occupied

\* C32: the word Send_CMD writes, at RAM_CMD + FifoWriteLocation, is never a
\* word that was published and that the device has not consumed, whatever
\* the enqueues and publishes before it and however slowly the device drains.
C32_EnqueueSparesUnconsumed ==
    [][FifoWriteLocation' # FifoWriteLocation =>
           ~InOccupied(FifoWriteLocation)]_vars

\* C33: when a chunk of CoProWrCmdBuf has been streamed in the transaction
\* opened at RAM_CMD + FifoWriteLocation, the cursor it began at plus the
\* chunk size is at most 4096: every byte of it lies in the FIFO window.
C33_ChunkInsideWindow ==
    (pc = "up_pub") =>
        (xferAddr - RAM_CMD) + xferLen <= FT_CMD_FIFO_SIZE

\* C34: when Calibrate_Manual has called calculate_touch_matrix on the three
\* samples it recorded, whatever REG_TOUCH_DIRECT_XY presented, the
\* determinant k of the touch points is not zero and no division by zero
\* has happened.
C34_ManualNeverDegenerate ==
    (/\ calOp = "Calibrate_Manual"
     /\ pc \in {"cal_wr", "trap"} \/ done = "Calibrate_Manual")
    => (detK # 0 /\ ~divByZero)

====
